---- MODULE Spec2Model ----
(***************************************************************************)
(* Model of the task-lifecycle tracking of django-celery-implementation:  *)
(* the TaskLog table (app/models.py), the three Celery signal handlers    *)
(* that write it (celerytest/celery.py), the task bodies that touch the   *)
(* same tables (app/tasks.py) and the worker that runs one execution of a *)
(* task: prerun signal, body, failure signal, postrun signal.             *)
(***************************************************************************)
EXTENDS Integers, Sequences, FiniteSets, TLC

(* ------------------------------ bounds -------------------------------- *)
\* task ids that can be submitted
NumTasks == 1
\* the clock (timezone.now()) runs over 0..MaxTime
MaxTime == 1
\* how many times the broker may deliver the message of one task again
MaxDeliveries == 1
\* largest count passed to create_users_batch
MaxCount == 1
\* largest "chunks" posted to the chord endpoint
MaxChunks == 3
\* largest "items_per_chunk" posted to the chord endpoint
MaxItems == 2
\* largest integer "initial_value" posted to the chain endpoint
MaxValue == 1
\* largest "count" posted to the group endpoint
MaxGroup == 3
\* largest "steps" posted to the long-task endpoint
MaxSteps == 2
\* largest number of rows of the Report table
MaxReports == 2
\* largest "duration" a time_limited_task is called with
MaxDuration == 31
\* largest number of rows of the ScheduledTask table
MaxScheduled == 1
\* the clock of celery beat, the second of the day, runs over 0..MaxClock
\* and starts again at 0
MaxClock == 310
\* ScheduledTask rows are created while the clock is in 0..LatestCreate
LatestCreate == 1
\* largest number of requests to the submit endpoints that are answered
MaxRequests == 2
\* how many postrun and failure notifications are delivered in all
MaxInvocations == 2
\* largest number of workers that reply to inspect()
\* rows of auth.User
MaxUsers == 2
\* length of the user_ids list
MaxIds == 2
MaxWorkers == 2

(* ------------------------- program constants -------------------------- *)
\* retry_kwargs={'max_retries': 3, ...} of task_with_retry
MaxRetries == 3
\* a DateTimeField with null=True that holds NULL
NoTime == -1

TaskIds == 1..NumTasks
\* the ids of the members of the group, member i being NumTasks + i
GroupIds == (NumTasks + 1)..(NumTasks + MaxGroup)
AllIds == TaskIds \cup GroupIds
Times == 0..MaxTime

VARIABLES
    logs,        \* the TaskLog table: task id -> row, or NoLog
    now,         \* timezone.now()
    users,       \* number of rows of auth.User
    pc,          \* per task id: where its message / execution is
    name,        \* per task id: the task's registered name
    args,        \* per task id: positional arguments of the call
    retries,     \* per task id: self.request.retries
    deliveries,  \* per task id: redeliveries of its message so far
    state,       \* per task id: state of the last execution (trace state)
    retval,      \* per task id: value or exception of the last execution
    members,     \* the chord's header: per member its signature, state, result
    callback,    \* the chord's body: state, times submitted, argument, result
    steps,       \* the chain: per step its state, argument and result
    revoked,     \* the chain's steps whose ids were revoked
    revoking,    \* the task ids the workers hold as revoked
    response,    \* the last answer of POST /api/revoke-task/<id>/
    schedule,    \* the retry delays computed so far for one task_with_retry
    long_task,   \* the long_running_task call: its message, argument, loop index
    meta,        \* what the result backend stores for the id of that call
    req,         \* the task_status / task_progress request being served
    answer,      \* the last response of task_status / task_progress
    health,      \* the celery_health request: its health_check task, its wait
    overview,    \* the task_overview request: its position and its results
    reports,     \* the Report table, in order of creation
    limited,     \* the time_limited_task call: its message, its sleep, its end
    scheduled,   \* the ScheduledTask table, in order of creation
    beat,        \* celery beat: its clock and the messages it has sent
    http,        \* the last request to a submit endpoint and its response
    outbox,      \* the tasks and workflows the submit endpoints have applied
    table,       \* the TaskLog table as a set of rows, each with its pk
    inv,         \* the running invocations of the postrun and failure handlers
    accounts,    \* the auth.User table: user id -> email, is_active
    bulk         \* the send_bulk_emails call: its message, what it published

lifecycleVars ==
    <<logs, now, users, pc, name, args, retries, deliveries, state, retval>>
chordVars == <<members, callback>>
chainVars == <<steps, revoked>>
canvasVars == <<chordVars, chainVars>>
controlVars == <<revoking, response>>
backoffVars == <<schedule>>
progressVars == <<long_task, meta, req, answer>>
healthVars == <<health>>
overviewVars == <<overview>>
reportVars == <<reports>>
limitVars == <<limited>>
beatVars == <<scheduled, beat>>
endpointVars == <<http, outbox>>
handlerVars == <<table, inv>>
bulkVars == <<accounts, bulk>>
platformVars == <<limitVars, beatVars, endpointVars, handlerVars, bulkVars>>
serviceVars ==
    <<backoffVars, progressVars, healthVars, overviewVars, reportVars,
      platformVars>>
vars == <<logs, now, users, pc, name, args, retries, deliveries, state, retval,
          canvasVars, controlVars, serviceVars>>

(* --------------------------- Python values ---------------------------- *)
\* A Python value, as far as str() and truth testing tell values apart.
PyInt(n) == [type |-> "int", val |-> n]
PyDict(n) == [type |-> "dict", val |-> n]
PyExc(n) == [type |-> "exc", val |-> n]
PyNone == [type |-> "none", val |-> 0]

\* bool(v): 0 and None are falsy; a non-empty dict and an exception are truthy
Truthy(v) ==
    CASE v.type = "int" -> v.val # 0
      [] v.type = "dict" -> TRUE
      [] v.type = "exc" -> TRUE
      [] OTHER -> FALSE

\* str(v)
Str(v) ==
    CASE v.type = "int" -> ToString(v.val)
      [] v.type = "dict" -> "{'count': " \o ToString(v.val) \o "}"
      [] v.type = "exc" -> "error " \o ToString(v.val)
      [] OTHER -> "None"

\* exceptions raised by task bodies
BodyError == PyExc(1)
IntegrityError == PyExc(2)
\* celery.exceptions.Retry, raised by self.retry() and by autoretry_for
RetryRequested == PyExc(3)

(* ------------------------------ TaskLog ------------------------------- *)
NoLog == [task_id |-> 0]
NullText == "<NULL>"
NullArgs == << -1 >>

STATUS_CHOICES == {"PENDING", "STARTED", "SUCCESS", "FAILURE", "RETRY", "REVOKED"}

\* TaskLog.objects.create(task_id=..., task_name=..., status=..., result=...,
\* retry_count=...): the other fields take their defaults, created_at is
\* auto_now_add.  The caller checks the unique constraint on task_id.
NewLog(id, task_name, status, result, rargs, retry_count, t) ==
    [task_id |-> id, task_name |-> task_name, status |-> status,
     result |-> result, args |-> rargs, created_at |-> t,
     started_at |-> NoTime, completed_at |-> NoTime,
     retry_count |-> retry_count]

Exists(L, id) == L[id] # NoLog

\* TaskLog.mark_started
mark_started(row, t) ==
    [row EXCEPT !.status = "STARTED", !.started_at = t]

\* TaskLog.mark_success
mark_success(row, result, t) ==
    [row EXCEPT !.status = "SUCCESS",
                !.completed_at = t,
                !.result = IF Truthy(result) THEN Str(result) ELSE @]

\* TaskLog.mark_failure
mark_failure(row, error, t) ==
    [row EXCEPT !.status = "FAILURE", !.completed_at = t, !.result = error]

(* -------------------------- signal handlers --------------------------- *)
\* task_prerun_handler: TaskLog.objects.update_or_create(task_id=task_id,
\* defaults={task_name, status='STARTED', args, kwargs})
task_prerun_handler(L, id, task_name, targs, t) ==
    IF Exists(L, id)
    THEN [L EXCEPT ![id] = [@ EXCEPT !.task_name = task_name,
                                     !.status = "STARTED",
                                     !.args = targs]]
    ELSE [L EXCEPT ![id] = NewLog(id, task_name, "STARTED", NullText, targs, 0, t)]

\* a postrun handler that only ever creates the row and leaves a row that is
\* already there as it is
postrun_create_only(L, id, task_name, rv, t) ==
    IF Exists(L, id)
    THEN L
    ELSE [L EXCEPT ![id] =
            NewLog(id, task_name, "SUCCESS",
                   IF Truthy(rv) THEN Str(rv) ELSE NullText, NullArgs, 0, t)]

\* task_postrun_handler: the state argument is not read
task_postrun_handler(L, id, task_name, rv, t) ==
    IF Exists(L, id)
    THEN [L EXCEPT ![id] = mark_success(@, rv, t)]
    ELSE [L EXCEPT ![id] =
            NewLog(id, task_name, "SUCCESS",
                   IF Truthy(rv) THEN Str(rv) ELSE NullText, NullArgs, 0, t)]

\* task_failure_handler
task_failure_handler(L, id, sender_name, exception, t) ==
    IF Exists(L, id)
    THEN [L EXCEPT ![id] =
            [mark_failure(@, Str(exception), t) EXCEPT !.retry_count = @ + 1]]
    ELSE [L EXCEPT ![id] =
            NewLog(id, sender_name, "FAILURE", Str(exception), NullArgs, 1, t)]

(* ----------------------- handlers, step by step ----------------------- *)
\* The handlers again, with the queries they make as separate steps on a
\* table of rows, for invocations that run at the same time.
Invocations == 1..MaxInvocations
\* the task ids the notifications are about: two, so that there is an id
\* other than the one a notification names
HandlerIds == {1, 2}
NoInstance == [pk |-> 0]
NoInvocation ==
    [handler |-> "none", id |-> 0, pc |-> "idle", retval |-> PyNone,
     task_log |-> NoInstance]

\* the update_fields of the save in mark_success and in mark_failure
MarkSuccessFields == {"status", "completed_at", "result"}
MarkFailureFieldsNoResult == {"status", "completed_at"}
MarkFailureFields == {"status", "completed_at", "result"}
\* save() without update_fields writes every column
AllFields ==
    {"task_id", "task_name", "status", "result", "args", "created_at",
     "started_at", "completed_at", "retry_count"}

\* TaskLog.objects.filter(task_id=id)
RowsOf(T, id) == {r \in T : r.task_id = id}

\* instance.save(update_fields=...): the row with the instance's pk gets the
\* instance's values of these fields
save(T, instance, update_fields) ==
    {IF r.pk = instance.pk
     THEN [f \in DOMAIN r |-> IF f \in update_fields THEN instance[f] ELSE r[f]]
     ELSE r : r \in T}

\* an insert into a table whose task_id column is not unique
objects_create_no_unique(T, row) ==
    [table |-> T \cup {[pk |-> Cardinality(T) + 1] @@ row}, raised |-> FALSE]

\* TaskLog.objects.create(...): task_id is unique=True, so the insert raises
\* IntegrityError when a row with the task_id is there
objects_create(T, row) ==
    IF RowsOf(T, row.task_id) # {}
    THEN [table |-> T, raised |-> TRUE]
    ELSE [table |-> T \cup {[pk |-> Cardinality(T) + 1] @@ row},
          raised |-> FALSE]

\* TaskLog.objects.update_or_create(task_id=id, defaults={task_name,
\* status='STARTED', args, kwargs}), which runs in its own transaction
update_or_create(T, id, task_name, targs, t) ==
    IF RowsOf(T, id) # {}
    THEN {IF r.task_id = id
          THEN [r EXCEPT !.task_name = task_name, !.status = "STARTED",
                         !.args = targs]
          ELSE r : r \in T}
    ELSE objects_create(T, NewLog(id, task_name, "STARTED", NullText, targs,
                                  0, t)).table

(* ----------------------------- task bodies ---------------------------- *)
ADD == "app.tasks.simple_addition"
CREATE_USERS == "app.tasks.create_users_batch"
WITH_RETRY == "app.tasks.task_with_retry"
SEND_EMAIL == "app.tasks.send_email_task"
TaskNames == {ADD, CREATE_USERS, WITH_RETRY}
\* the tasks declared with max_retries
RetryTasks == {WITH_RETRY, SEND_EMAIL}

\* the argument lists the submit endpoints pass to apply_async
ArgsOf(task_name) ==
    CASE task_name = ADD -> {<<0, 0>>, <<5, 3>>}
      [] task_name = CREATE_USERS -> {<<c>> : c \in 1..MaxCount}
      [] task_name = SEND_EMAIL -> {<<1>>}   \* recipient_list=[user.email]
      [] OTHER -> {<<>>}

\* add: return x + y
add(x, y) == PyInt(x + y)

\* create_users_batch: count users are created, then the task writes a
\* TaskLog row under its own id; task_id is unique, so the create raises
\* IntegrityError when a row with the id is already there.
\* Gives [logs, users, state, retval] after the body.
create_users_batch(L, U, id, count, t) ==
    IF Exists(L, id)
    THEN [logs |-> L, users |-> U + count,
          state |-> "FAILURE", retval |-> IntegrityError]
    ELSE [logs |-> [L EXCEPT ![id] =
                      NewLog(id, CREATE_USERS, "SUCCESS",
                             "Created " \o ToString(count) \o " users",
                             NullArgs, 0, t)],
          users |-> U + count,
          state |-> "SUCCESS", retval |-> PyDict(count)]

\* a task_with_retry that is retried after every failure, whatever
\* request.retries is
task_with_retry_unbounded(fails, request_retries) ==
    IF fails
    THEN [state |-> "RETRY", retval |-> RetryRequested]
    ELSE [state |-> "SUCCESS", retval |-> PyDict(request_retries + 1)]

\* task_with_retry: either the random failure (autoretry_for=(Exception,)
\* turns it into a retry while request.retries < max_retries, and into the
\* failure itself after that) or the success dict with attempts = retries + 1.
task_with_retry(fails, request_retries) ==
    IF fails
    THEN IF request_retries < MaxRetries
         THEN [state |-> "RETRY", retval |-> RetryRequested]
         ELSE [state |-> "FAILURE", retval |-> BodyError]
    ELSE [state |-> "SUCCESS", retval |-> PyDict(request_retries + 1)]

\* send_email_task (max_retries=3): send_mail raises and the except clause
\* calls self.retry(exc=exc), which raises Retry while request.retries <
\* max_retries and exc itself after that; or the mail is sent and the task
\* returns {'status': 'success', 'recipients': len(recipient_list)}
send_email_task(fails, request_retries, recipients) ==
    IF fails
    THEN IF request_retries < MaxRetries
         THEN [state |-> "RETRY", retval |-> RetryRequested]
         ELSE [state |-> "FAILURE", retval |-> BodyError]
    ELSE [state |-> "SUCCESS", retval |-> PyDict(recipients)]

\* cleanup_task_logs: delete the rows with created_at < now - days
cleanup_task_logs(L, days, t) ==
    [id \in DOMAIN L |->
        IF Exists(L, id) /\ L[id].created_at < t - days THEN NoLog ELSE L[id]]

(* -------------------------------- chord -------------------------------- *)
\* list(range(a, b))
Range(a, b) == [k \in 1..(b - a) |-> a + k - 1]

\* process_data_chunk
process_data_chunk(chunk_id, data) ==
    [chunk_id |-> chunk_id,
     items_processed |-> Len(data),
     results |-> [k \in 1..Len(data) |->
                    [original |-> data[k], processed |-> data[k] * 2]]]

\* a header built with the chunk ids counted from the last chunk
chord_header_reversed(chunks, items_per_chunk) ==
    [i \in 1..chunks |->
        [chunk_id |-> chunks - i,
         data |-> Range((i - 1) * items_per_chunk, i * items_per_chunk)]]

\* task_chord_example: the header of the chord, one signature
\* process_data_chunk.s(i, chunk_data[i]) per chunk, i = 0 .. chunks-1
task_chord_example(chunks, items_per_chunk) ==
    [i \in 1..chunks |->
        [chunk_id |-> i - 1,
         data |-> Range((i - 1) * items_per_chunk, i * items_per_chunk)]]

NoResult == [none |-> TRUE]
\* what stands for a failed member where a result is expected
ErrorMarker == [error |-> "member failed"]
IsResult(r) == "items_processed" \in DOMAIN r

RECURSIVE SumItems(_)
\* sum(r['items_processed'] for r in results)
SumItems(results) ==
    IF results = <<>> THEN 0
    ELSE Head(results).items_processed + SumItems(Tail(results))

RECURSIVE Extend(_)
\* all_results.extend(result['results']) for each result in order
Extend(results) ==
    IF results = <<>> THEN <<>>
    ELSE Head(results).results \o Extend(Tail(results))

\* aggregate_results: subscripting an entry that is no result dict raises
aggregate_results(results) ==
    IF \E i \in 1..Len(results) : ~IsResult(results[i])
    THEN [state |-> "FAILURE", retval |-> ErrorMarker]
    ELSE [state |-> "SUCCESS",
          retval |-> [status |-> "aggregated",
                      total_chunks |-> Len(results),
                      total_items |-> SumItems(results),
                      aggregated_data |-> Extend(results)]]

NoCallback == [state |-> "none", fired |-> 0, args |-> <<>>, result |-> NoResult]

AllReturned(ms) ==
    ms # <<>> /\ \A i \in 1..Len(ms) : ms[i].state \in {"SUCCESS", "FAILURE"}

\* a chord that calls its body whatever the members' outcome, a failed member
\* standing in the list as an error marker
chord_join_with_markers(ms, cb) ==
    [cb EXCEPT !.state = "queued",
               !.fired = @ + 1,
               !.args = [i \in 1..Len(ms) |->
                           IF ms[i].state = "SUCCESS" THEN ms[i].result
                           ELSE ErrorMarker]]

\* chord(header)(aggregate_results.s()): once every member has returned, the
\* header's results are joined in header order, errors propagating: the body
\* is submitted with the list of results when all members succeeded, and is
\* never called (the chord is marked failed) when a member failed
chord_join(ms, cb) ==
    IF \A i \in 1..Len(ms) : ms[i].state = "SUCCESS"
    THEN [cb EXCEPT !.state = "queued",
                    !.fired = @ + 1,
                    !.args = [i \in 1..Len(ms) |-> ms[i].result]]
    ELSE [cb EXCEPT !.state = "chord_error"]

(* -------------------------------- chain -------------------------------- *)
\* a Python str of n characters
PyStr(n) == [type |-> "str", val |-> n]
TypeError == PyExc(4)

\* the values a client can post as "initial_value"
ChainInputs == {PyInt(n) : n \in 0..MaxValue} \cup {PyStr(1), PyNone}

\* a first step that hands its input on as it is
workflow_step_1_identity(value) ==
    CASE value.type \in {"int", "str"} -> [state |-> "SUCCESS", retval |-> value]
      [] OTHER -> [state |-> "FAILURE", retval |-> TypeError]

\* workflow_step_1: return value * 2
workflow_step_1(value) ==
    CASE value.type = "int" -> [state |-> "SUCCESS", retval |-> PyInt(value.val * 2)]
      [] value.type = "str" -> [state |-> "SUCCESS", retval |-> PyStr(value.val * 2)]
      [] OTHER -> [state |-> "FAILURE", retval |-> TypeError]

\* workflow_step_2: return value + 10
workflow_step_2(value) ==
    CASE value.type = "int" -> [state |-> "SUCCESS", retval |-> PyInt(value.val + 10)]
      [] OTHER -> [state |-> "FAILURE", retval |-> TypeError]

\* workflow_step_3: return {'final_result': value, 'status': 'completed'}
workflow_step_3(value) ==
    [state |-> "SUCCESS",
     retval |-> [type |-> "final", val |-> value, status |-> "completed"]]

ChainLength == 3
WorkflowStep(k, value) ==
    CASE k = 1 -> workflow_step_1(value)
      [] k = 2 -> workflow_step_2(value)
      [] OTHER -> workflow_step_3(value)

NoValue == [type |-> "unset", val |-> 0]
UnsentStep == [state |-> "unsent", arg |-> NoValue, result |-> NoValue]

\* task_chain_example: chain(workflow_step_1.s(initial_value),
\* workflow_step_2.s(), workflow_step_3.s()).apply_async() publishes the
\* first step; the others wait for their predecessor
task_chain_example(initial_value) ==
    [k \in 1..ChainLength |->
        IF k = 1
        THEN [state |-> "queued", arg |-> initial_value, result |-> NoValue]
        ELSE UnsentStep]

\* a chain that publishes the next step whatever the outcome of the previous
chain_step_done_always(st, k, r) ==
    [j \in 1..ChainLength |->
        IF j = k THEN [st[j] EXCEPT !.state = r.state, !.result = r.retval]
        ELSE IF j = k + 1
             THEN [st[j] EXCEPT !.state = "queued", !.arg = r.retval]
             ELSE st[j]]

\* step k of the chain has run with outcome r: its state and result are
\* stored, and when it succeeded the next step is published with the result
\* as its first argument; after a failure nothing more is published
chain_step_done(st, k, r) ==
    [j \in 1..ChainLength |->
        IF j = k THEN [st[j] EXCEPT !.state = r.state, !.result = r.retval]
        ELSE IF j = k + 1 /\ r.state = "SUCCESS"
             THEN [st[j] EXCEPT !.state = "queued", !.arg = r.retval]
             ELSE st[j]]

\* the status GET /task-status/<id> reports for the id the chain endpoint
\* returned, which is the id of the last step: PENDING until a worker has
\* received that step
ChainStatus ==
    IF steps[ChainLength].state \in {"unsent", "queued"} THEN "PENDING"
    ELSE steps[ChainLength].state

(* ------------------------------ progress ------------------------------ *)
\* the meta passed to update_state: current, total,
\* percent = int(current / total * 100)
PyProgress(current, total) ==
    [type |-> "progress", current |-> current, total |-> total,
     percent |-> (current * 100) \div total]

\* the "steps" the long-task endpoint passes on: data.get('steps', 10) is
\* whatever the JSON body holds
LongInputs == {PyInt(n) : n \in 0..MaxSteps} \cup {PyStr(1)}

NoLongTask == [pc |-> "new", total_steps |-> PyNone, i |-> 0, deliveries |-> 0]
\* nothing stored for the id: the backend answers PENDING
NoMeta == [status |-> "PENDING", result |-> PyNone]
\* the meta stored with STARTED (CELERY_TASK_TRACK_STARTED)
StartedInfo == [type |-> "worker", val |-> 0]

\* a long_running_task that publishes its progress under the state PROCESSING
long_running_task_processing(total_steps, i) ==
    IF total_steps.type # "int"
    THEN [done |-> TRUE, status |-> "FAILURE", result |-> TypeError]
    ELSE IF i < total_steps.val
         THEN [done |-> FALSE, status |-> "PROCESSING",
               result |-> PyProgress(i + 1, total_steps.val)]
         ELSE [done |-> TRUE, status |-> "SUCCESS", result |-> PyDict(total_steps.val)]

\* a long_running_task that publishes current = i instead of i + 1
long_running_task_behind(total_steps, i) ==
    IF total_steps.type # "int"
    THEN [done |-> TRUE, status |-> "FAILURE", result |-> TypeError]
    ELSE IF i < total_steps.val
         THEN [done |-> FALSE, status |-> "PROGRESS",
               result |-> PyProgress(i, total_steps.val)]
         ELSE [done |-> TRUE, status |-> "SUCCESS", result |-> PyDict(total_steps.val)]

\* a long_running_task whose loop is one turn short
long_running_task_short(total_steps, i) ==
    IF total_steps.type # "int"
    THEN [done |-> TRUE, status |-> "FAILURE", result |-> TypeError]
    ELSE IF i < total_steps.val - 1
         THEN [done |-> FALSE, status |-> "PROGRESS",
               result |-> PyProgress(i + 1, total_steps.val)]
         ELSE [done |-> TRUE, status |-> "SUCCESS", result |-> PyDict(total_steps.val)]

\* long_running_task, one turn of its loop: with i the turns done so far, what
\* the body stores next: range(total_steps) raises TypeError for a value that
\* is not an integer; turn i publishes PROGRESS with current = i + 1; after
\* the last turn the body returns and the result is stored with SUCCESS
long_running_task(total_steps, i) ==
    IF total_steps.type # "int"
    THEN [done |-> TRUE, status |-> "FAILURE", result |-> TypeError]
    ELSE IF i < total_steps.val
         THEN [done |-> FALSE, status |-> "PROGRESS",
               result |-> PyProgress(i + 1, total_steps.val)]
         ELSE [done |-> TRUE, status |-> "SUCCESS", result |-> PyDict(total_steps.val)]

READY_STATES == {"SUCCESS", "FAILURE", "REVOKED"}

\* AsyncResult: the meta of a ready state is cached in the object, any other
\* is read from the backend again by every status / state / ready() / info
NoCache == [status |-> "none", result |-> PyNone]
get_task_meta(cache, stored) == IF cache # NoCache THEN cache ELSE stored
maybe_set_cache(m) == IF m.status \in READY_STATES THEN m ELSE NoCache

Absent == [type |-> "absent", val |-> 0]
NoData ==
    [status |-> "", ready |-> FALSE, successful |-> "None", result |-> Absent,
     error |-> "", progress |-> Absent, info |-> Absent]
NoRequest ==
    [view |-> "none", pc |-> 0, cache |-> NoCache, first |-> "", seen |-> "",
     data |-> NoData]
NewRequest(view) == [NoRequest EXCEPT !.view = view, !.pc = 1]

\* task_status, from the read at position pc of the view on: m is the meta
\* that read gets; pc = 0 in the result means the response is sent
task_status(rq, m) ==
    CASE rq.pc = 1 ->     \* 'status': result.status
           [rq EXCEPT !.pc = 2, !.first = m.status, !.data.status = m.status]
      [] rq.pc = 2 ->     \* 'ready': result.ready()
           [rq EXCEPT !.pc = 3, !.data.ready = (m.status \in READY_STATES)]
      [] rq.pc = 3 ->     \* 'successful': result.successful() if result.ready() else None
           [rq EXCEPT !.pc = 4,
                      !.data.successful =
                          IF m.status \in READY_STATES
                          THEN (IF m.status = "SUCCESS" THEN "True" ELSE "False")
                          ELSE "None"]
      [] rq.pc = 4 ->     \* if result.ready(): result or error
           IF m.status \in READY_STATES
           THEN IF m.status = "SUCCESS"
                THEN [rq EXCEPT !.pc = 0, !.data.result = m.result]
                ELSE [rq EXCEPT !.pc = 0, !.data.error = Str(m.result)]
           ELSE [rq EXCEPT !.pc = 5]
      [] rq.pc = 5 ->     \* if result.state == 'PROGRESS'
           [rq EXCEPT !.pc = IF m.status = "PROGRESS" THEN 6 ELSE 0,
                      !.seen = m.status]
      [] OTHER ->         \* response_data['progress'] = result.info
           [rq EXCEPT !.pc = 0, !.data.progress = m.result]

\* task_progress, in the same way
task_progress(rq, m) ==
    CASE rq.pc = 1 ->     \* if result.state == 'PROGRESS'
           [rq EXCEPT !.pc = IF m.status = "PROGRESS" THEN 2 ELSE 3,
                      !.first = m.status, !.seen = m.status]
      [] rq.pc = 2 ->     \* 'status': 'PROGRESS', 'info': result.info
           [rq EXCEPT !.pc = 0, !.data.status = "PROGRESS", !.data.info = m.result]
      [] rq.pc = 3 ->     \* elif result.ready(): 'status': 'COMPLETED'
           IF m.status \in READY_STATES
           THEN [rq EXCEPT !.pc = 0,
                           !.data.status = "COMPLETED",
                           !.data.ready = TRUE,
                           !.data.result =
                               IF m.status = "SUCCESS" THEN m.result ELSE PyNone,
                           !.data.error =
                               IF m.status = "SUCCESS" THEN "None" ELSE Str(m.result)]
           ELSE [rq EXCEPT !.pc = 4]
      [] OTHER ->         \* else: 'status': result.state
           [rq EXCEPT !.pc = 0, !.data.status = m.status]

(* ------------------------------- health ------------------------------- *)
\* result.get(timeout=5)
HealthTimeout == 5

\* what inspect.active() / inspect.scheduled() may give: None when no worker
\* replies, else a dict with one entry per worker that replied
InspectReplies == {PyNone} \cup {PyInt(n) : n \in 0..MaxWorkers}

OperationalError == PyExc(6)
TimeoutError == PyExc(7)

\* health_check: len(x) if x else 0 for the active and the scheduled reply
health_check(active_tasks, scheduled_tasks) ==
    [type |-> "dict", status |-> "healthy",
     active_tasks |-> IF Truthy(active_tasks) THEN active_tasks.val ELSE 0,
     scheduled_tasks |-> IF Truthy(scheduled_tasks) THEN scheduled_tasks.val ELSE 0]

NoInfo == [type |-> "none", val |-> 0]
NoHealthResponse == [code |-> 0, status |-> "", celery_info |-> NoInfo, error |-> ""]
NoHealth ==
    [pc |-> "idle", task |-> "none", result |-> NoInfo, waited |-> 0,
     response |-> NoHealthResponse]

\* a celery_health that does not tell a failed health_check from its result
celery_health_no_propagate(raised, value) ==
    IF raised /\ value # BodyError
    THEN [code |-> 503, status |-> "unhealthy", celery_info |-> NoInfo,
          error |-> Str(value)]
    ELSE [code |-> 200, status |-> "healthy", celery_info |-> value, error |-> ""]

\* celery_health: the try block ends with the value result.get returned, or
\* with an exception raised by apply_async or by result.get
celery_health(raised, value) ==
    IF raised
    THEN [code |-> 503, status |-> "unhealthy", celery_info |-> NoInfo,
          error |-> Str(value)]
    ELSE [code |-> 200, status |-> "healthy", celery_info |-> value, error |-> ""]

(* ------------------------------- backoff ------------------------------ *)
\* the retry options of task_with_retry
retry_countdown == 5
retry_backoff == TRUE
retry_backoff_max == 600
retry_jitter == TRUE

Min(a, b) == IF a < b THEN a ELSE b
Max(a, b) == IF a > b THEN a ELSE b

\* int(max(1.0, retry_backoff)): True counts as 1
backoff_factor(backoff) == IF backoff = TRUE THEN 1 ELSE Max(1, backoff)

\* get_exponential_backoff_interval before the jitter:
\* min(maximum, factor * 2 ** retries)
get_exponential_backoff_interval(factor, request_retries, maximum) ==
    Min(maximum, factor * (2 ^ request_retries))

\* the countdown of the retry of an execution with the given
\* request.retries: with retry_backoff set, the countdown of retry_kwargs is
\* replaced by the backoff interval; with retry_jitter the countdown is
\* random.randrange(interval + 1).  Gives the interval and the countdowns
\* the retry may be published with.
autoretry_countdown(request_retries) ==
    LET interval ==
            IF retry_backoff # FALSE
            THEN get_exponential_backoff_interval(
                     backoff_factor(retry_backoff), request_retries, retry_backoff_max)
            ELSE retry_countdown
    IN [computed |-> interval,
        countdowns |-> IF retry_backoff # FALSE /\ retry_jitter
                       THEN 0..interval ELSE {interval}]

(* -------------------------------- group -------------------------------- *)
\* a header whose second argument is i instead of i * 2
group_header_same(count) == [i \in 1..count |-> <<i - 1, i - 1>>]

\* task_group_example: the header [add.s(i, i * 2) for i in range(count)]
task_group_example(count) == [i \in 1..count |-> <<i - 1, (i - 1) * 2>>]

(* ------------------------------ overview ------------------------------ *)
\* the ids that have a row in the TaskLog table
Rows(L) == {id \in DOMAIN L : Exists(L, id)}

\* TaskLog.objects.count()
total_tasks(L) == Cardinality(Rows(L))

\* TaskLog.objects.values('status').annotate(count=Count('id')): one entry
\* per status that some row has, with the number of rows that have it
status_breakdown(L) ==
    [s \in {L[id].status : id \in Rows(L)} |->
        Cardinality({id \in Rows(L) : L[id].status = s})]

\* recent_tasks = TaskLog.objects.order_by('-created_at')[:10]
RecentLimit == 10

\* the ways to list all of the ids in S
Orderings(S) ==
    {f \in [1..Cardinality(S) -> S] :
        \A i, j \in 1..Cardinality(S) : i # j => f[i] # f[j]}

\* the rows newest first, cut after the tenth; rows created at the same time
\* come in the order the database picks
recent_tasks(L) ==
    {SubSeq(f, 1, IF Len(f) < RecentLimit THEN Len(f) ELSE RecentLimit) :
        f \in {g \in Orderings(Rows(L)) :
                 \A i \in 1..(Len(g) - 1) :
                    L[g[i]].created_at >= L[g[i + 1]].created_at}}

NoOverview ==
    [pc |-> "idle", total_tasks |-> 0, status_breakdown |-> <<>>,
     recent_tasks |-> <<>>]

(* ------------------------------- Report ------------------------------- *)
REPORT_STATUS_CHOICES == {"PENDING", "PROCESSING", "COMPLETED", "FAILED"}
REPORT_TYPES == {"USER", "TASK", "SALES", "ANALYTICS", "CUSTOM"}

\* Report.objects.create(report_type=..., status=...): completed_at is NULL
NewReport(report_type, status) ==
    [report_type |-> report_type, status |-> status, file_path |-> "",
     completed_at |-> NoTime]

\* Report.mark_processing
mark_processing(row) == [row EXCEPT !.status = "PROCESSING"]

\* Report.mark_completed(file_path=None)
mark_completed(row, file_path, t) ==
    [row EXCEPT !.status = "COMPLETED",
                !.completed_at = t,
                !.file_path = IF file_path # "" THEN file_path ELSE @]

\* Report.mark_failed
mark_failed(row, t) == [row EXCEPT !.status = "FAILED", !.completed_at = t]

\* generate_report: Report.objects.create(report_type=report_type,
\* status='COMPLETED', data=...)
generate_report(report_type) == NewReport(report_type, "COMPLETED")

(* ----------------------------- time limits ---------------------------- *)
\* @shared_task(..., time_limit=30, soft_time_limit=25)
time_limit == 30
soft_time_limit == 25

SoftTimeLimitExceeded == PyExc(8)
\* billiard's TimeLimitExceeded, stored by the worker for a killed execution
TimeLimitExceeded == PyExc(9)

NoLimited ==
    [pc |-> "new", duration |-> 0, soft |-> FALSE, elapsed |-> 0, runs |-> 0,
     ended |-> "no", state |-> "PENDING", retval |-> PyNone]

\* a time_limited_task without the except clause: SoftTimeLimitExceeded
\* leaves the body
time_limited_task_no_except(duration, interrupted) ==
    IF interrupted
    THEN [state |-> "FAILURE", retval |-> SoftTimeLimitExceeded]
    ELSE [state |-> "SUCCESS",
          retval |-> [status |-> "completed", duration |-> duration]]

\* time_limited_task: time.sleep(duration) either ends, or is interrupted by
\* SoftTimeLimitExceeded, which the except clause turns into a return
time_limited_task(duration, interrupted) ==
    IF interrupted
    THEN [state |-> "SUCCESS",
          retval |-> [status |-> "time_limit_exceeded", duration |-> duration]]
    ELSE [state |-> "SUCCESS",
          retval |-> [status |-> "completed", duration |-> duration]]

(* ---------------------------- ScheduledTask --------------------------- *)
\* interval_seconds = models.IntegerField(null=True, blank=True) holding NULL
NoInterval == -1
\* the interval of test_scheduled_task_creation
TestInterval == 300

\* the values a caller of ScheduledTask.objects.create passes
CrontabValues == {"", "*/5 * * * *"}
IntervalValues == {NoInterval, TestInterval}
ScheduleNames == {"test-scheduled-task", "other-task"}

\* ScheduledTask.objects.create(name=..., task_name=..., crontab_schedule=...,
\* interval_seconds=..., enabled=..., last_run=...): no clean(), no
\* constraint and no save() override looks at the values; next_run is NULL
NewScheduledTask(nm, crontab_schedule, interval_seconds, enabled, last_run) ==
    [name |-> nm, task_name |-> "app.tasks.health_check",
     crontab_schedule |-> crontab_schedule,
     interval_seconds |-> interval_seconds, enabled |-> enabled,
     last_run |-> last_run, next_run |-> NoTime]

\* name is unique
ScheduledNames(S) == {S[r].name : r \in 1..Len(S)}

\* CELERY_BEAT_SCHEDULE: the entries celery beat reads, with the period in
\* seconds of each crontab: crontab(hour=0, minute=0) and
\* crontab(minute='*/5')
CELERY_BEAT_SCHEDULE ==
    [cleanup |-> [task |-> "app.tasks.cleanup_task_logs", period |-> 86400,
                  args |-> <<7>>],
     health |-> [task |-> "app.tasks.health_check", period |-> 300,
                 args |-> <<>>]]

\* crontab.is_due at second t of the day
is_due(entry, t) == t % CELERY_BEAT_SCHEDULE[entry].period = 0

\* beat starts at second 0; an entry's last_run_at is then the time beat
\* started, so nothing is sent for that second.  sent holds the entries
\* sent for the present second.
NoBeat == [clock |-> 0, sent |-> DOMAIN CELERY_BEAT_SCHEDULE]

(* -------------------------- submit endpoints -------------------------- *)
LONG_RUNNING == "app.tasks.long_running_task"
GENERATE_REPORT == "app.tasks.generate_report"
PROCESS_CHUNK == "app.tasks.process_data_chunk"
AGGREGATE == "app.tasks.aggregate_results"
WORKFLOW_STEP_1 == "app.tasks.workflow_step_1"

\* the url names of the views that submit
SubmitViews ==
    {"simple_task", "chain_tasks", "group_tasks", "chord_tasks", "long_task",
     "retry_task", "create_users", "generate_report"}

\* the request body: empty, not JSON, or a JSON object holding the view's
\* first parameter
Bodies(view) ==
    {[kind |-> "empty", val |-> 0], [kind |-> "malformed", val |-> 0]}
    \cup {[kind |-> "json", val |-> n] :
            n \in CASE view = "group_tasks" -> 0..MaxGroup
                    [] view = "chord_tasks" -> 0..MaxChunks
                    [] OTHER -> 0..MaxValue}

\* data.get(<parameter>, <default>) for the view's first parameter
Default(view) ==
    CASE view = "simple_task" -> 5
      [] view = "chain_tasks" -> 5
      [] view = "group_tasks" -> 5
      [] view = "chord_tasks" -> 3
      [] view = "long_task" -> 10
      [] view = "create_users" -> 10
      [] OTHER -> 0
\* data.get('y', 3) and data.get('items_per_chunk', 10)
DefaultY == 3
DefaultItems == 10

Message(task, targs) == [task |-> task, args |-> targs]

\* the messages that applying the view's signature publishes at once.  A
\* chain publishes its first step.  A group publishes its members, none when
\* the list is empty.  A chord publishes its header and leaves the body to
\* the last member; with an empty header celery applies the body at once
\* with [].
Published(view, val) ==
    CASE view = "simple_task" -> <<Message(ADD, <<val, DefaultY>>)>>
      [] view = "chain_tasks" -> <<Message(WORKFLOW_STEP_1, <<val>>)>>
      [] view = "group_tasks" ->
            [i \in 1..val |-> Message(ADD, task_group_example(val)[i])]
      [] view = "chord_tasks" ->
            IF val = 0 THEN <<Message(AGGREGATE, <<>>)>>
            ELSE [i \in 1..val |->
                    Message(PROCESS_CHUNK,
                            <<task_chord_example(val, DefaultItems)[i].chunk_id>>)]
      [] view = "long_task" -> <<Message(LONG_RUNNING, <<val>>)>>
      [] view = "retry_task" -> <<Message(WITH_RETRY, <<val>>)>>
      [] view = "create_users" -> <<Message(CREATE_USERS, <<val>>)>>
      [] OTHER -> <<Message(GENERATE_REPORT, <<>>)>>

NoHttp ==
    [view |-> "none", method |-> "GET", body |-> [kind |-> "empty", val |-> 0],
     broker |-> TRUE, code |-> 0, status |-> "none", id |-> 0, sent |-> <<>>]

\* a submit view that does not look at the method
submit_view_any_method(view, method, body, broker, next_id) ==
    IF body.kind = "malformed" \/ ~broker
    THEN [code |-> 400, status |-> "error", id |-> 0, sent |-> <<>>,
          applied |-> FALSE]
    ELSE [code |-> 200, status |-> "success", id |-> next_id,
          sent |-> Published(view,
                     IF body.kind = "empty" THEN Default(view) ELSE body.val),
          applied |-> TRUE]

\* simple_task_example, task_chain_example, task_group_example,
\* task_chord_example, long_task_example, retry_task_example,
\* create_users_example and generate_report_example share one shape: a GET
\* answers the info text; a POST parses the body, applies the signature and
\* answers 'success' with the id of the result, and any exception inside the
\* try (json.loads, the broker connexion) is answered 400 'error'.
\* Gives the response, the messages published and whether a signature was
\* applied.
submit_view(view, method, body, broker, next_id) ==
    IF method = "GET"
    THEN [code |-> 200, status |-> "info", id |-> 0, sent |-> <<>>,
          applied |-> FALSE]
    ELSE IF body.kind = "malformed" \/ ~broker
    THEN [code |-> 400, status |-> "error", id |-> 0, sent |-> <<>>,
          applied |-> FALSE]
    ELSE [code |-> 200, status |-> "success", id |-> next_id,
          sent |-> Published(view,
                     IF body.kind = "empty" THEN Default(view) ELSE body.val),
          applied |-> TRUE]

(* ------------------------------- revoke ------------------------------- *)
\* celery.exceptions.TaskRevokedError, the result stored for a revoked id
TaskRevokedError == PyExc(5)

NoResponse == [status |-> "none"]

\* revoke_task: current_app.control.revoke(task_id, terminate=terminate) is
\* broadcast to the workers, and the view answers 'success' with the message
\* 'Task <id> revoked' whatever the state of the task
revoke_task(id, terminate) ==
    [status |-> "success", message |-> "revoked", task_id |-> id,
     terminated |-> terminate]

\* AsyncResult(id).status, the state the result backend holds for the id:
\* PENDING while nothing is stored, STARTED while the body runs
\* (CELERY_TASK_TRACK_STARTED), then the state the execution ended in
AsyncResultStatus(id) == IF pc[id] = "running" THEN "STARTED" ELSE state[id]

(* ---------------------------- bulk e-mails ---------------------------- *)
Emails == {"a@example.com", "b@example.com"}
\* the ids a caller may name: those of the rows and one that no row has
UserIds == 1..(MaxUsers + 1)
UserIdLists == UNION {[1..n -> UserIds] : n \in 0..MaxIds}

SEND_BULK == "app.tasks.send_bulk_emails"
NoBulk ==
    [pc |-> "new", user_ids |-> <<>>, published |-> <<>>, retval |-> PyNone]

\* User.objects.filter(id__in=user_ids, is_active=True): the ids of the rows
filter_users(A, user_ids) ==
    {u \in 1..Len(A) :
        /\ \E k \in 1..Len(user_ids) : user_ids[k] = u
        /\ A[u].is_active}

\* a send_bulk_emails that leaves is_active=True out of its filter
send_bulk_emails_any_user(A, user_ids, order) ==
    LET all == CHOOSE f \in Orderings({u \in 1..Len(A) :
                       \E k \in 1..Len(user_ids) : user_ids[k] = u}) : TRUE
        email_tasks ==
            [k \in 1..Len(all) |->
                Message(SEND_EMAIL, <<A[all[k]].email>>)]
    IN [published |-> email_tasks, retval |-> PyDict(Len(email_tasks))]

\* send_bulk_emails: one send_email_task signature with
\* recipient_list=[user.email] per row of the queryset, in the order the
\* database gives the rows; group(email_tasks).apply_async() publishes them;
\* the task returns {'status': 'queued', 'email_count': len(email_tasks),
\* 'group_id': ...}
send_bulk_emails(A, user_ids, order) ==
    LET email_tasks ==
            [k \in 1..Len(order) |->
                Message(SEND_EMAIL, <<A[order[k]].email>>)]
    IN [published |-> email_tasks, retval |-> PyDict(Len(email_tasks))]

(* ------------------------------- actions ------------------------------ *)
Init ==
    /\ logs = [id \in AllIds |-> NoLog]
    /\ now = 0
    /\ users = 0
    /\ pc = [id \in AllIds |-> "new"]
    /\ name = [id \in AllIds |-> ADD]
    /\ args = [id \in AllIds |-> <<0, 0>>]
    /\ retries = [id \in AllIds |-> 0]
    /\ deliveries = [id \in AllIds |-> 0]
    /\ state = [id \in AllIds |-> "PENDING"]
    /\ retval = [id \in AllIds |-> PyNone]
    /\ members = <<>>
    /\ callback = NoCallback
    /\ steps = <<>>
    /\ revoked = {}
    /\ revoking = {}
    /\ response = NoResponse
    /\ schedule = <<>>
    /\ long_task = NoLongTask
    /\ meta = NoMeta
    /\ req = NoRequest
    /\ answer = NoRequest
    /\ health = NoHealth
    /\ overview = NoOverview
    /\ reports = <<>>
    /\ limited = NoLimited
    /\ scheduled = <<>>
    /\ beat = NoBeat
    /\ http = NoHttp
    /\ outbox = <<>>
    /\ table = {}
    /\ inv = [k \in Invocations |-> NoInvocation]
    /\ accounts = <<>>
    /\ bulk = NoBulk

\* a submit endpoint: <task>.apply_async(args=...) publishes the message
Submit(id) ==
    /\ pc[id] = "new"
    /\ \E n \in TaskNames : \E a \in ArgsOf(n) :
          /\ name' = [name EXCEPT ![id] = n]
          /\ args' = [args EXCEPT ![id] = a]
    /\ pc' = [pc EXCEPT ![id] = "queued"]
    /\ UNCHANGED <<logs, now, users, retries, deliveries, state, retval, canvasVars, controlVars, serviceVars>>

\* the worker takes the message: task_prerun is sent before the body runs
Prerun(id) ==
    /\ pc[id] = "queued"
    /\ id \notin revoking
    /\ logs' = task_prerun_handler(logs, id, name[id], args[id], now)
    /\ pc' = [pc EXCEPT ![id] = "running"]
    /\ UNCHANGED <<now, users, name, args, retries, deliveries, state, retval, canvasVars, controlVars, serviceVars>>

\* the body of the task runs to its return or to its exception
Body(id) ==
    /\ pc[id] = "running"
    /\ \/ /\ name[id] = ADD
          /\ state' = [state EXCEPT ![id] = "SUCCESS"]
          /\ retval' = [retval EXCEPT ![id] = add(args[id][1], args[id][2])]
          /\ UNCHANGED <<logs, users>>
       \/ /\ name[id] = CREATE_USERS
          /\ LET r == create_users_batch(logs, users, id, args[id][1], now)
             IN /\ logs' = r.logs
                /\ users' = r.users
                /\ state' = [state EXCEPT ![id] = r.state]
                /\ retval' = [retval EXCEPT ![id] = r.retval]
       \/ /\ name[id] = WITH_RETRY
          /\ \E fails \in BOOLEAN :
                LET r == task_with_retry(fails, retries[id])
                IN /\ state' = [state EXCEPT ![id] = r.state]
                   /\ retval' = [retval EXCEPT ![id] = r.retval]
          /\ UNCHANGED <<logs, users>>
       \/ /\ name[id] = SEND_EMAIL
          /\ \E fails \in BOOLEAN :
                LET r == send_email_task(fails, retries[id], args[id][1])
                IN /\ state' = [state EXCEPT ![id] = r.state]
                   /\ retval' = [retval EXCEPT ![id] = r.retval]
          /\ UNCHANGED <<logs, users>>
    /\ pc' = [pc EXCEPT ![id] = IF state'[id] = "FAILURE" THEN "failed" ELSE "returned"]
    /\ UNCHANGED <<now, name, args, retries, deliveries, canvasVars, controlVars, serviceVars>>

\* the execution ended in FAILURE: task_failure is sent
SignalFailure(id) ==
    /\ pc[id] = "failed"
    /\ logs' = task_failure_handler(logs, id, name[id], retval[id], now)
    /\ pc' = [pc EXCEPT ![id] = "returned"]
    /\ UNCHANGED <<now, users, name, args, retries, deliveries, state, retval, canvasVars, controlVars, serviceVars>>

\* task_postrun is sent after every execution, whatever its state; an
\* execution that asked for a retry is published again with retries + 1
Postrun(id) ==
    /\ pc[id] = "returned"
    /\ logs' = task_postrun_handler(logs, id, name[id], retval[id], now)
    /\ IF state[id] = "RETRY"
       THEN /\ pc' = [pc EXCEPT ![id] = "queued"]
            /\ retries' = [retries EXCEPT ![id] = @ + 1]
       ELSE /\ pc' = [pc EXCEPT ![id] = "done"]
            /\ UNCHANGED retries
    /\ UNCHANGED <<now, users, name, args, deliveries, state, retval, canvasVars, controlVars, serviceVars>>

\* at-least-once delivery: the broker hands the message of a finished task
\* to a worker again
Redeliver(id) ==
    /\ pc[id] = "done"
    /\ deliveries[id] < MaxDeliveries
    /\ deliveries' = [deliveries EXCEPT ![id] = @ + 1]
    /\ pc' = [pc EXCEPT ![id] = "queued"]
    /\ UNCHANGED <<logs, now, users, name, args, retries, state, retval, canvasVars, controlVars, serviceVars>>

\* a run of cleanup_task_logs(days)
CleanupTaskLogs ==
    /\ \E days \in 0..MaxTime : logs' = cleanup_task_logs(logs, days, now)
    /\ logs' # logs
    /\ UNCHANGED <<now, users, pc, name, args, retries, deliveries, state, retval, canvasVars, controlVars, serviceVars>>

\* time passes
Tick ==
    /\ now < MaxTime
    /\ now' = now + 1
    /\ UNCHANGED <<logs, users, pc, name, args, retries, deliveries, state, retval, canvasVars, controlVars, serviceVars>>

Next ==
    \/ \E id \in TaskIds : Submit(id)
    \/ \E id \in TaskIds : Prerun(id)
    \/ \E id \in TaskIds : Body(id)
    \/ \E id \in TaskIds : SignalFailure(id)
    \/ \E id \in TaskIds : Postrun(id)
    \/ \E id \in TaskIds : Redeliver(id)
    \/ CleanupTaskLogs
    \/ Tick

Spec == Init /\ [][Next]_vars

(* ---------------------------- revoke actions -------------------------- *)
\* POST /api/revoke-task/<id>/?terminate=...: the workers add the id to
\* their revoked set; with terminate the execution of a running task is
\* killed and its state stored as REVOKED
Revoke(id) ==
    /\ pc[id] # "new"
    /\ \E terminate \in BOOLEAN :
          /\ response' = revoke_task(id, terminate)
          /\ IF terminate /\ pc[id] = "running"
             THEN /\ pc' = [pc EXCEPT ![id] = "done"]
                  /\ state' = [state EXCEPT ![id] = "REVOKED"]
                  /\ retval' = [retval EXCEPT ![id] = TaskRevokedError]
             ELSE UNCHANGED <<pc, state, retval>>
    /\ revoking' = revoking \cup {id}
    /\ UNCHANGED <<logs, now, users, name, args, retries, deliveries, canvasVars, serviceVars>>

\* a worker receives the message of a revoked id: the message is discarded
\* and the state REVOKED is stored for the id; no signal handler of
\* celerytest/celery.py is connected to it
Discard(id) ==
    /\ pc[id] = "queued"
    /\ id \in revoking
    /\ pc' = [pc EXCEPT ![id] = "done"]
    /\ state' = [state EXCEPT ![id] = "REVOKED"]
    /\ retval' = [retval EXCEPT ![id] = TaskRevokedError]
    /\ UNCHANGED <<logs, now, users, name, args, retries, deliveries, canvasVars, controlVars, serviceVars>>

RevokeNext ==
    \/ \E id \in TaskIds : Submit(id)
    \/ \E id \in TaskIds : Prerun(id)
    \/ \E id \in TaskIds : Body(id)
    \/ \E id \in TaskIds : SignalFailure(id)
    \/ \E id \in TaskIds : Postrun(id)
    \/ \E id \in TaskIds : Revoke(id)
    \/ \E id \in TaskIds : Discard(id)

SpecRevoke == Init /\ [][RevokeNext]_vars

(* ---------------------------- retry actions --------------------------- *)
\* retry_task_example: task_with_retry.apply_async(args=[fail_probability]);
\* send_bulk_emails: one send_email_task per user
SubmitRetry(id) ==
    /\ pc[id] = "new"
    /\ \E n \in RetryTasks : \E a \in ArgsOf(n) :
          /\ name' = [name EXCEPT ![id] = n]
          /\ args' = [args EXCEPT ![id] = a]
    /\ pc' = [pc EXCEPT ![id] = "queued"]
    /\ UNCHANGED <<logs, now, users, retries, deliveries, state, retval, canvasVars, controlVars, serviceVars>>

RetryNext ==
    \/ \E id \in TaskIds : SubmitRetry(id)
    \/ \E id \in TaskIds : Prerun(id)
    \/ \E id \in TaskIds : Body(id)
    \/ \E id \in TaskIds : SignalFailure(id)
    \/ \E id \in TaskIds : Postrun(id)
    \/ \E id \in TaskIds : Redeliver(id)

SpecRetry == Init /\ [][RetryNext]_vars

(* -------------------------- progress actions -------------------------- *)
\* POST /api/long-task/: long_running_task.apply_async(args=[steps])
LongSubmit ==
    /\ long_task.pc = "new"
    /\ \E total_steps \in LongInputs :
          long_task' = [NoLongTask EXCEPT !.pc = "queued",
                                         !.total_steps = total_steps]
    /\ UNCHANGED <<meta, req, answer>>
    /\ UNCHANGED <<platformVars, lifecycleVars, canvasVars, controlVars, backoffVars, healthVars, overviewVars, reportVars>>

\* a worker takes the message: STARTED is stored for the id
LongStart ==
    /\ long_task.pc = "queued"
    /\ long_task' = [long_task EXCEPT !.pc = "running", !.i = 0]
    /\ meta' = [status |-> "STARTED", result |-> StartedInfo]
    /\ UNCHANGED <<req, answer>>
    /\ UNCHANGED <<platformVars, lifecycleVars, canvasVars, controlVars, backoffVars, healthVars, overviewVars, reportVars>>

\* the body goes on to its next update_state, to its return or to its
\* exception, and what it publishes replaces what is stored for the id
LongRun ==
    /\ long_task.pc = "running"
    /\ LET r == long_running_task(long_task.total_steps, long_task.i)
       IN /\ meta' = [status |-> r.status, result |-> r.result]
          /\ long_task' = IF r.done
                          THEN [long_task EXCEPT !.pc = "done"]
                          ELSE [long_task EXCEPT !.i = @ + 1]
    /\ UNCHANGED <<req, answer>>
    /\ UNCHANGED <<platformVars, lifecycleVars, canvasVars, controlVars, backoffVars, healthVars, overviewVars, reportVars>>

\* at-least-once delivery: the message of the finished call is delivered again
LongRedeliver ==
    /\ long_task.pc = "done"
    /\ long_task.deliveries < MaxDeliveries
    /\ long_task' = [long_task EXCEPT !.pc = "queued", !.deliveries = @ + 1]
    /\ UNCHANGED <<meta, req, answer>>
    /\ UNCHANGED <<platformVars, lifecycleVars, canvasVars, controlVars, backoffVars, healthVars, overviewVars, reportVars>>

\* GET /api/task-status/<id>/ or GET /api/task-progress/<id>/ arrives
ViewRequest ==
    /\ req.view = "none"
    /\ long_task.pc # "new"
    /\ \E view \in {"task_status", "task_progress"} : req' = NewRequest(view)
    /\ UNCHANGED <<long_task, meta, answer>>
    /\ UNCHANGED <<platformVars, lifecycleVars, canvasVars, controlVars, backoffVars, healthVars, overviewVars, reportVars>>

\* the view does its next read of the AsyncResult; after its last read the
\* response is sent
ViewRead ==
    /\ req.view # "none"
    /\ LET m == get_task_meta(req.cache, meta)
           r == IF req.view = "task_status"
                THEN task_status(req, m)
                ELSE task_progress(req, m)
       IN IF r.pc = 0
          THEN /\ answer' = r
               /\ req' = NoRequest
          ELSE /\ req' = [r EXCEPT !.cache = maybe_set_cache(m)]
               /\ UNCHANGED answer
    /\ UNCHANGED <<long_task, meta>>
    /\ UNCHANGED <<platformVars, lifecycleVars, canvasVars, controlVars, backoffVars, healthVars, overviewVars, reportVars>>

ProgressNext ==
    \/ LongSubmit
    \/ LongStart
    \/ LongRun
    \/ LongRedeliver
    \/ ViewRequest
    \/ ViewRead

SpecProgress == Init /\ [][ProgressNext]_vars

(* --------------------------- health actions --------------------------- *)
\* GET /api/health/: health_check.apply_async() publishes the task, or
\* raises when the broker cannot be reached
HealthRequest ==
    /\ health.pc \in {"idle", "answered"}
    /\ \E broker_up \in BOOLEAN :
          health' = IF broker_up
                    THEN [NoHealth EXCEPT !.pc = "waiting", !.task = "queued"]
                    ELSE [NoHealth EXCEPT !.pc = "answered",
                                          !.response = celery_health(TRUE, OperationalError)]
    /\ UNCHANGED <<platformVars, lifecycleVars, canvasVars, controlVars, backoffVars, progressVars, overviewVars, reportVars>>

\* a worker, if there is one, takes the health_check task
HealthStart ==
    /\ health.task = "queued"
    /\ health' = [health EXCEPT !.task = "STARTED"]
    /\ UNCHANGED <<platformVars, lifecycleVars, canvasVars, controlVars, backoffVars, progressVars, overviewVars, reportVars>>

\* the body of health_check returns, or raises
HealthRun ==
    /\ health.task = "STARTED"
    /\ \/ \E a \in InspectReplies, sch \in InspectReplies :
             health' = [health EXCEPT !.task = "SUCCESS",
                                      !.result = health_check(a, sch)]
       \/ health' = [health EXCEPT !.task = "FAILURE", !.result = BodyError]
    /\ UNCHANGED <<platformVars, lifecycleVars, canvasVars, controlVars, backoffVars, progressVars, overviewVars, reportVars>>

\* result.get polls the backend: a ready task ends the wait, with its
\* result or with its exception raised again
HealthPoll ==
    /\ health.pc = "waiting"
    /\ health.waited < HealthTimeout
    /\ health.task \in READY_STATES
    /\ health' = [health EXCEPT !.pc = "answered",
                                 !.response = celery_health(health.task # "SUCCESS",
                                                            health.result)]
    /\ UNCHANGED <<platformVars, lifecycleVars, canvasVars, controlVars, backoffVars, progressVars, overviewVars, reportVars>>

\* a second of the wait passes
HealthWait ==
    /\ health.pc = "waiting"
    /\ health.waited < HealthTimeout
    /\ health' = [health EXCEPT !.waited = @ + 1]
    /\ UNCHANGED <<platformVars, lifecycleVars, canvasVars, controlVars, backoffVars, progressVars, overviewVars, reportVars>>

\* the 5 seconds are over: result.get raises TimeoutError
HealthTimedOut ==
    /\ health.pc = "waiting"
    /\ health.waited >= HealthTimeout
    /\ health' = [health EXCEPT !.pc = "answered",
                                 !.response = celery_health(TRUE, TimeoutError)]
    /\ UNCHANGED <<platformVars, lifecycleVars, canvasVars, controlVars, backoffVars, progressVars, overviewVars, reportVars>>

HealthNext ==
    \/ HealthRequest
    \/ HealthStart
    \/ HealthRun
    \/ HealthPoll
    \/ HealthWait
    \/ HealthTimedOut

SpecHealth == Init /\ [][HealthNext]_vars

(* --------------------------- backoff actions -------------------------- *)
\* an execution of task_with_retry raises with request.retries =
\* Len(schedule): the autoretry wrapper computes the countdown of the retry
BackoffRetry ==
    /\ Len(schedule) <= MaxRetries
    /\ LET r == autoretry_countdown(Len(schedule))
       IN \E c \in r.countdowns :
             schedule' = Append(schedule,
                                [retry_count |-> Len(schedule),
                                 computed |-> r.computed,
                                 countdown |-> c])
    /\ UNCHANGED <<platformVars, lifecycleVars, canvasVars, controlVars, progressVars, healthVars, overviewVars, reportVars>>

SpecBackoff == Init /\ [][BackoffRetry]_vars

(* ---------------------------- group actions --------------------------- *)
\* POST /api/group-tasks/: the messages of all members are published
GroupSubmit ==
    /\ \A id \in GroupIds : pc[id] = "new"
    /\ \E count \in 0..MaxGroup :
          LET header == task_group_example(count)
              sent == {NumTasks + i : i \in 1..count}
          IN /\ name' = [id \in AllIds |-> IF id \in sent THEN ADD ELSE name[id]]
             /\ args' = [id \in AllIds |->
                            IF id \in sent THEN header[id - NumTasks] ELSE args[id]]
             /\ pc' = [id \in AllIds |-> IF id \in sent THEN "queued" ELSE pc[id]]
    /\ UNCHANGED <<logs, now, users, retries, deliveries, state, retval, canvasVars, controlVars, serviceVars>>

GroupNext ==
    \/ GroupSubmit
    \/ \E id \in GroupIds : Prerun(id)
    \/ \E id \in GroupIds : Body(id)
    \/ \E id \in GroupIds : Postrun(id)
    \/ \E id \in GroupIds : Revoke(id)
    \/ \E id \in GroupIds : Discard(id)

SpecGroup == Init /\ [][GroupNext]_vars

(* -------------------------- overview actions -------------------------- *)
\* GET /api/task-overview/ arrives
OverviewRequest ==
    /\ overview.pc \in {"idle", "done"}
    /\ overview' = [NoOverview EXCEPT !.pc = "count"]
    /\ UNCHANGED <<platformVars, lifecycleVars, canvasVars, controlVars>>
    /\ UNCHANGED <<backoffVars, progressVars, healthVars, reportVars>>

\* total_tasks = TaskLog.objects.count(): the first query that is run (stats,
\* assigned before it, is a lazy queryset)
OverviewCount ==
    /\ overview.pc = "count"
    /\ overview' = [overview EXCEPT !.pc = "stats", !.total_tasks = total_tasks(logs)]
    /\ UNCHANGED <<platformVars, lifecycleVars, canvasVars, controlVars>>
    /\ UNCHANGED <<backoffVars, progressVars, healthVars, reportVars>>

\* 'status_breakdown': list(stats) runs the GROUP BY query
OverviewStats ==
    /\ overview.pc = "stats"
    /\ overview' = [overview EXCEPT !.pc = "recent",
                                     !.status_breakdown = status_breakdown(logs)]
    /\ UNCHANGED <<platformVars, lifecycleVars, canvasVars, controlVars>>
    /\ UNCHANGED <<backoffVars, progressVars, healthVars, reportVars>>

\* 'recent_tasks': the comprehension runs the ORDER BY query; the response
\* is sent
OverviewRecent ==
    /\ overview.pc = "recent"
    /\ \E recent \in recent_tasks(logs) :
          overview' = [overview EXCEPT !.pc = "done", !.recent_tasks = recent]
    /\ UNCHANGED <<platformVars, lifecycleVars, canvasVars, controlVars>>
    /\ UNCHANGED <<backoffVars, progressVars, healthVars, reportVars>>

\* the workers run the members of a group, and the lifecycle handlers write
\* TaskLog, while the overview is served
OverviewNext ==
    \/ OverviewRequest
    \/ OverviewCount
    \/ OverviewStats
    \/ OverviewRecent
    \/ GroupSubmit
    \/ \E id \in GroupIds : Prerun(id)
    \/ \E id \in GroupIds : Body(id)
    \/ \E id \in GroupIds : Postrun(id)
    \/ Tick

SpecOverview == Init /\ [][OverviewNext]_vars

(* --------------------------- report actions --------------------------- *)
\* a Report is created with the default status (admin, tests)
ReportCreate ==
    /\ Len(reports) < MaxReports
    /\ \E report_type \in REPORT_TYPES :
          reports' = Append(reports, NewReport(report_type, "PENDING"))
    /\ UNCHANGED <<platformVars, lifecycleVars, canvasVars, controlVars>>
    /\ UNCHANGED <<backoffVars, progressVars, healthVars, overviewVars>>

\* the body of the generate_report task
GenerateReport ==
    /\ Len(reports) < MaxReports
    /\ \E report_type \in REPORT_TYPES :
          reports' = Append(reports, generate_report(report_type))
    /\ UNCHANGED <<platformVars, lifecycleVars, canvasVars, controlVars>>
    /\ UNCHANGED <<backoffVars, progressVars, healthVars, overviewVars>>

\* report.mark_processing()
MarkProcessing(r) ==
    /\ r \in 1..Len(reports)
    /\ reports' = [reports EXCEPT ![r] = mark_processing(@)]
    /\ UNCHANGED <<platformVars, lifecycleVars, canvasVars, controlVars>>
    /\ UNCHANGED <<backoffVars, progressVars, healthVars, overviewVars>>

\* report.mark_completed(file_path)
MarkCompleted(r) ==
    /\ r \in 1..Len(reports)
    /\ \E file_path \in {"", "report.pdf"} :
          reports' = [reports EXCEPT ![r] = mark_completed(@, file_path, now)]
    /\ UNCHANGED <<platformVars, lifecycleVars, canvasVars, controlVars>>
    /\ UNCHANGED <<backoffVars, progressVars, healthVars, overviewVars>>

\* report.mark_failed()
MarkFailed(r) ==
    /\ r \in 1..Len(reports)
    /\ reports' = [reports EXCEPT ![r] = mark_failed(@, now)]
    /\ UNCHANGED <<platformVars, lifecycleVars, canvasVars, controlVars>>
    /\ UNCHANGED <<backoffVars, progressVars, healthVars, overviewVars>>

ReportNext ==
    \/ ReportCreate
    \/ GenerateReport
    \/ \E r \in 1..MaxReports : MarkProcessing(r)
    \/ \E r \in 1..MaxReports : MarkCompleted(r)
    \/ \E r \in 1..MaxReports : MarkFailed(r)
    \/ Tick

SpecReport == Init /\ [][ReportNext]_vars

(* -------------------------- time limit actions ------------------------ *)
\* time_limited_task.apply_async(args=[duration]).  The soft limit is
\* delivered as a signal to the pool process: soft tells whether the
\* worker's pool and platform deliver it (prefork with SIGUSR1); where they
\* do not, only the hard limit applies.
LimitedSubmit ==
    /\ limited.pc = "new"
    /\ \E duration \in 0..MaxDuration : \E soft \in BOOLEAN :
          limited' = [limited EXCEPT !.pc = "queued", !.duration = duration,
                                     !.soft = soft]
    /\ UNCHANGED <<lifecycleVars, canvasVars, controlVars, backoffVars, progressVars, healthVars, overviewVars, reportVars, beatVars, endpointVars, handlerVars, bulkVars>>

\* a worker takes the message (acknowledged now: acks_late is not set) and
\* the body reaches time.sleep(duration); both timers start
LimitedStart ==
    /\ limited.pc = "queued"
    /\ limited' = [limited EXCEPT !.pc = "sleeping", !.elapsed = 0,
                                   !.runs = @ + 1, !.state = "STARTED"]
    /\ UNCHANGED <<lifecycleVars, canvasVars, controlVars, backoffVars, progressVars, healthVars, overviewVars, reportVars, beatVars, endpointVars, handlerVars, bulkVars>>

\* one second of the sleep passes; a timer that is due goes first
LimitedSleep ==
    /\ limited.pc = "sleeping"
    /\ limited.elapsed < limited.duration
    /\ limited.elapsed < time_limit
    /\ ~(limited.soft /\ limited.elapsed = soft_time_limit)
    /\ limited' = [limited EXCEPT !.elapsed = @ + 1]
    /\ UNCHANGED <<lifecycleVars, canvasVars, controlVars, backoffVars, progressVars, healthVars, overviewVars, reportVars, beatVars, endpointVars, handlerVars, bulkVars>>

\* the sleep is over: return {'status': 'completed', 'duration': duration}
LimitedReturn ==
    /\ limited.pc = "sleeping"
    /\ limited.elapsed = limited.duration
    /\ LET r == time_limited_task(limited.duration, FALSE)
       IN limited' = [limited EXCEPT !.pc = "done", !.ended = "return",
                                     !.state = r.state, !.retval = r.retval]
    /\ UNCHANGED <<lifecycleVars, canvasVars, controlVars, backoffVars, progressVars, healthVars, overviewVars, reportVars, beatVars, endpointVars, handlerVars, bulkVars>>

\* the soft limit fires: SoftTimeLimitExceeded is raised inside the sleep
LimitedSoftLimit ==
    /\ limited.pc = "sleeping"
    /\ limited.soft
    /\ limited.elapsed = soft_time_limit
    /\ LET r == time_limited_task(limited.duration, TRUE)
       IN limited' = [limited EXCEPT !.pc = "done", !.ended = "soft",
                                     !.state = r.state, !.retval = r.retval]
    /\ UNCHANGED <<lifecycleVars, canvasVars, controlVars, backoffVars, progressVars, healthVars, overviewVars, reportVars, beatVars, endpointVars, handlerVars, bulkVars>>

\* the hard limit fires: the pool process is killed and the worker stores
\* FAILURE with TimeLimitExceeded; the message was acknowledged and the task
\* has no autoretry_for, so nothing publishes it again
LimitedHardLimit ==
    /\ limited.pc = "sleeping"
    /\ limited.elapsed = time_limit
    /\ limited' = [limited EXCEPT !.pc = "killed", !.ended = "hard",
                                   !.state = "FAILURE",
                                   !.retval = TimeLimitExceeded]
    /\ UNCHANGED <<lifecycleVars, canvasVars, controlVars, backoffVars, progressVars, healthVars, overviewVars, reportVars, beatVars, endpointVars, handlerVars, bulkVars>>

LimitedNext ==
    \/ LimitedSubmit
    \/ LimitedStart
    \/ LimitedSleep
    \/ LimitedReturn
    \/ LimitedSoftLimit
    \/ LimitedHardLimit

SpecLimited == Init /\ [][LimitedNext]_vars

(* ----------------------------- beat actions --------------------------- *)
\* ScheduledTask.objects.create(...) (tests, admin); a name that is already
\* there raises IntegrityError and nothing is stored
ScheduledCreate ==
    /\ Len(scheduled) < MaxScheduled
    /\ beat.clock <= LatestCreate
    /\ \E nm \in ScheduleNames \ ScheduledNames(scheduled) :
       \E crontab_schedule \in CrontabValues :
       \E interval_seconds \in IntervalValues :
       \E enabled \in BOOLEAN :
       \E last_run \in {NoTime, beat.clock} :
          scheduled' = Append(scheduled,
                NewScheduledTask(nm, crontab_schedule, interval_seconds,
                                 enabled, last_run))
    /\ UNCHANGED <<beat, limitVars, endpointVars, handlerVars, bulkVars>>
    /\ UNCHANGED <<lifecycleVars, canvasVars, controlVars, backoffVars, progressVars, healthVars, overviewVars, reportVars>>

\* the admin form saves the row with the enabled box changed
ScheduledToggle(r) ==
    /\ r \in 1..Len(scheduled)
    /\ scheduled' = [scheduled EXCEPT ![r].enabled = ~@]
    /\ UNCHANGED <<beat, limitVars, endpointVars, handlerVars, bulkVars>>
    /\ UNCHANGED <<lifecycleVars, canvasVars, controlVars, backoffVars, progressVars, healthVars, overviewVars, reportVars>>

\* celery beat sends the task of an entry of CELERY_BEAT_SCHEDULE that is
\* due; it reads no ScheduledTask row and writes none
BeatSend ==
    /\ \E e \in DOMAIN CELERY_BEAT_SCHEDULE :
          /\ is_due(e, beat.clock)
          /\ e \notin beat.sent
          /\ beat' = [beat EXCEPT !.sent = @ \cup {e}]
    /\ UNCHANGED <<scheduled, limitVars, endpointVars, handlerVars, bulkVars>>
    /\ UNCHANGED <<lifecycleVars, canvasVars, controlVars, backoffVars, progressVars, healthVars, overviewVars, reportVars>>

\* a second passes, once beat has sent what is due
BeatTick ==
    /\ \A e \in DOMAIN CELERY_BEAT_SCHEDULE :
          is_due(e, beat.clock) => e \in beat.sent
    /\ beat' = [clock |-> (beat.clock + 1) % (MaxClock + 1), sent |-> {}]
    /\ UNCHANGED <<scheduled, limitVars, endpointVars, handlerVars, bulkVars>>
    /\ UNCHANGED <<lifecycleVars, canvasVars, controlVars, backoffVars, progressVars, healthVars, overviewVars, reportVars>>

BeatNext ==
    \/ ScheduledCreate
    \/ \E r \in 1..MaxScheduled : ScheduledToggle(r)
    \/ BeatSend
    \/ BeatTick

SpecBeat == Init /\ [][BeatNext]_vars

\* beat keeps running: its clock advances and what is due is sent
SpecBeatFair == SpecBeat /\ WF_vars(BeatTick) /\ WF_vars(BeatSend)

(* --------------------------- endpoint actions ------------------------- *)
\* a request to one of the submit endpoints is served; broker tells whether
\* the broker can be reached
SubmitRequest ==
    /\ Len(outbox) < MaxRequests
    /\ \E view \in SubmitViews : \E method \in {"GET", "POST"} :
       \E body \in Bodies(view) : \E broker \in BOOLEAN :
          LET r == submit_view(view, method, body, broker, Len(outbox) + 1)
          IN /\ http' = [view |-> view, method |-> method, body |-> body,
                         broker |-> broker, code |-> r.code,
                         status |-> r.status, id |-> r.id, sent |-> r.sent]
             /\ outbox' = IF r.applied
                          THEN Append(outbox, [id |-> r.id, view |-> view])
                          ELSE outbox
             /\ <<http, outbox>>' # <<http, outbox>>
    /\ UNCHANGED <<limitVars, beatVars, handlerVars, bulkVars>>
    /\ UNCHANGED <<lifecycleVars, canvasVars, controlVars, backoffVars, progressVars, healthVars, overviewVars, reportVars>>

SpecEndpoints == Init /\ [][SubmitRequest]_vars

(* --------------------------- handler actions -------------------------- *)
\* task_prerun is sent for a task id: task_prerun_handler
HandlerPrerun(id) ==
    /\ table' = update_or_create(table, id, ADD, <<0, 0>>, now)
    /\ table' # table
    /\ UNCHANGED <<inv, limitVars, beatVars, endpointVars, bulkVars>>
    /\ UNCHANGED <<lifecycleVars, canvasVars, controlVars, backoffVars, progressVars, healthVars, overviewVars, reportVars>>

\* the body of create_users_batch writes the TaskLog of its own id; an
\* IntegrityError fails the task and leaves the table as it is
HandlerBodyCreate(id) ==
    /\ LET r == objects_create(table,
                    NewLog(id, CREATE_USERS, "SUCCESS", "Created 1 users",
                           NullArgs, 0, now))
       IN /\ ~r.raised
          /\ table' = r.table
    /\ UNCHANGED <<inv, limitVars, beatVars, endpointVars, bulkVars>>
    /\ UNCHANGED <<lifecycleVars, canvasVars, controlVars, backoffVars, progressVars, healthVars, overviewVars, reportVars>>

\* task_postrun or task_failure is sent for a task id, perhaps a second
\* time: invocation k of a handler starts
HandlerInvoke(k) ==
    /\ inv[k].pc = "idle"
    /\ \A j \in 1..(k - 1) : inv[j].pc # "idle"   \* numbered as they start
    /\ \E handler \in {"postrun", "failure"} : \E id \in HandlerIds :
          inv' = [inv EXCEPT ![k] =
                    [NoInvocation EXCEPT
                        !.handler = handler, !.id = id, !.pc = "get",
                        !.retval = IF handler = "failure" THEN BodyError
                                   ELSE add(5, 3)]]
    /\ UNCHANGED <<table, limitVars, beatVars, endpointVars, bulkVars>>
    /\ UNCHANGED <<lifecycleVars, canvasVars, controlVars, backoffVars, progressVars, healthVars, overviewVars, reportVars>>

\* task_log = TaskLog.objects.get(task_id=task_id), or DoesNotExist
HandlerGet(k) ==
    /\ inv[k].pc = "get"
    /\ IF RowsOf(table, inv[k].id) = {}
       THEN inv' = [inv EXCEPT ![k].pc = "create"]
       ELSE \E r \in RowsOf(table, inv[k].id) :
               inv' = [inv EXCEPT ![k].pc = "mark", ![k].task_log = r]
    /\ UNCHANGED <<table, limitVars, beatVars, endpointVars, bulkVars>>
    /\ UNCHANGED <<lifecycleVars, canvasVars, controlVars, backoffVars, progressVars, healthVars, overviewVars, reportVars>>

\* task_log.mark_success(result=retval) in task_postrun_handler,
\* task_log.mark_failure(error=str(exception)) in task_failure_handler
HandlerMark(k) ==
    /\ inv[k].pc = "mark"
    /\ IF inv[k].handler = "postrun"
       THEN LET obj == mark_success(inv[k].task_log, inv[k].retval, now)
            IN /\ table' = save(table, obj, MarkSuccessFields)
               /\ inv' = [inv EXCEPT ![k].pc = "done", ![k].task_log = obj]
       ELSE LET obj == mark_failure(inv[k].task_log, Str(inv[k].retval), now)
            IN /\ table' = save(table, obj, MarkFailureFields)
               /\ inv' = [inv EXCEPT ![k].pc = "incr", ![k].task_log = obj]
    /\ UNCHANGED <<limitVars, beatVars, endpointVars, bulkVars>>
    /\ UNCHANGED <<lifecycleVars, canvasVars, controlVars, backoffVars, progressVars, healthVars, overviewVars, reportVars>>

\* task_log.retry_count += 1; task_log.save()
HandlerIncrement(k) ==
    /\ inv[k].pc = "incr"
    /\ LET obj == [inv[k].task_log EXCEPT !.retry_count = @ + 1]
       IN /\ table' = save(table, obj, AllFields)
          /\ inv' = [inv EXCEPT ![k].pc = "done", ![k].task_log = obj]
    /\ UNCHANGED <<limitVars, beatVars, endpointVars, bulkVars>>
    /\ UNCHANGED <<lifecycleVars, canvasVars, controlVars, backoffVars, progressVars, healthVars, overviewVars, reportVars>>

\* the except TaskLog.DoesNotExist branch: TaskLog.objects.create(...); an
\* IntegrityError leaves the handler
HandlerCreate(k) ==
    /\ inv[k].pc = "create"
    /\ LET rv == inv[k].retval
           row == IF inv[k].handler = "postrun"
                  THEN NewLog(inv[k].id, ADD, "SUCCESS",
                              IF Truthy(rv) THEN Str(rv) ELSE NullText,
                              NullArgs, 0, now)
                  ELSE NewLog(inv[k].id, ADD, "FAILURE", Str(rv), NullArgs,
                              1, now)
           r == objects_create(table, row)
       IN /\ table' = r.table
          /\ inv' = [inv EXCEPT ![k].pc = IF r.raised THEN "raised" ELSE "done"]
    /\ UNCHANGED <<limitVars, beatVars, endpointVars, bulkVars>>
    /\ UNCHANGED <<lifecycleVars, canvasVars, controlVars, backoffVars, progressVars, healthVars, overviewVars, reportVars>>

HandlersNext ==
    \/ \E id \in HandlerIds : HandlerPrerun(id)
    \/ \E id \in HandlerIds : HandlerBodyCreate(id)
    \/ \E k \in Invocations : HandlerInvoke(k)
    \/ \E k \in Invocations : HandlerGet(k)
    \/ \E k \in Invocations : HandlerMark(k)
    \/ \E k \in Invocations : HandlerIncrement(k)
    \/ \E k \in Invocations : HandlerCreate(k)

SpecHandlers == Init /\ [][HandlersNext]_vars

(* ------------------------- bulk e-mail actions ------------------------ *)
\* User.objects.create_user(email=..., ...): is_active is True by default
UserCreate ==
    /\ Len(accounts) < MaxUsers
    /\ \E email \in Emails :
          accounts' = Append(accounts, [email |-> email, is_active |-> TRUE])
    /\ UNCHANGED bulk
    /\ UNCHANGED <<lifecycleVars, canvasVars, controlVars, backoffVars, progressVars, healthVars, overviewVars, reportVars>>
    /\ UNCHANGED <<limitVars, beatVars, endpointVars, handlerVars>>

\* the admin switches is_active of a user
UserSetActive(u) ==
    /\ u \in 1..Len(accounts)
    /\ accounts' = [accounts EXCEPT ![u].is_active = ~@]
    /\ UNCHANGED bulk
    /\ UNCHANGED <<lifecycleVars, canvasVars, controlVars, backoffVars, progressVars, healthVars, overviewVars, reportVars>>
    /\ UNCHANGED <<limitVars, beatVars, endpointVars, handlerVars>>

\* send_bulk_emails.apply_async(args=[user_ids, subject, message])
BulkSubmit ==
    /\ bulk.pc = "new"
    /\ \E user_ids \in UserIdLists :
          bulk' = [NoBulk EXCEPT !.pc = "queued", !.user_ids = user_ids]
    /\ UNCHANGED accounts
    /\ UNCHANGED <<lifecycleVars, canvasVars, controlVars, backoffVars, progressVars, healthVars, overviewVars, reportVars>>
    /\ UNCHANGED <<limitVars, beatVars, endpointVars, handlerVars>>

\* the body of send_bulk_emails: the queryset is evaluated once, by the loop
BulkRun ==
    /\ bulk.pc = "queued"
    /\ \E order \in Orderings(filter_users(accounts, bulk.user_ids)) :
          LET r == send_bulk_emails(accounts, bulk.user_ids, order)
          IN bulk' = [bulk EXCEPT !.pc = "done",
                                  !.published = r.published,
                                  !.retval = r.retval]
    /\ UNCHANGED accounts
    /\ UNCHANGED <<lifecycleVars, canvasVars, controlVars, backoffVars, progressVars, healthVars, overviewVars, reportVars>>
    /\ UNCHANGED <<limitVars, beatVars, endpointVars, handlerVars>>

BulkNext ==
    \/ UserCreate
    \/ \E u \in 1..MaxUsers : UserSetActive(u)
    \/ BulkSubmit
    \/ BulkRun

SpecBulk == Init /\ [][BulkNext]_vars

(* ---------------------------- chord actions --------------------------- *)
\* POST /api/chord-tasks/: the members are published and the body waits;
\* with chunks = 0 there is no member to wait for and celery applies the
\* body at once with []
ChordSubmit ==
    /\ members = <<>>
    /\ callback = NoCallback
    /\ \E chunks \in 0..MaxChunks, items_per_chunk \in 0..MaxItems :
          /\ members' = [i \in 1..chunks |->
                          [sig |-> task_chord_example(chunks, items_per_chunk)[i],
                           state |-> "PENDING",
                           result |-> NoResult]]
          /\ callback' = IF chunks = 0
                         THEN [NoCallback EXCEPT !.state = "queued", !.fired = 1]
                         ELSE [NoCallback EXCEPT !.state = "waiting"]
    /\ UNCHANGED <<serviceVars, controlVars, lifecycleVars, chainVars>>

\* a member's execution ends, in any order among the members: with its result,
\* or in failure (time limit, lost worker, revocation); the member that is the
\* last to return joins the chord
MemberReturn(i) ==
    /\ i \in 1..Len(members)
    /\ members[i].state = "PENDING"
    /\ \E ok \in BOOLEAN :
          members' = [members EXCEPT ![i] =
                        IF ok
                        THEN [@ EXCEPT !.state = "SUCCESS",
                                       !.result = process_data_chunk(members[i].sig.chunk_id,
                                                                     members[i].sig.data)]
                        ELSE [@ EXCEPT !.state = "FAILURE",
                                       !.result = ErrorMarker]]
    /\ callback' = IF AllReturned(members')
                   THEN chord_join(members', callback)
                   ELSE callback
    /\ UNCHANGED <<serviceVars, controlVars, lifecycleVars, chainVars>>

\* a worker runs the body aggregate_results(results)
CallbackRun ==
    /\ callback.state = "queued"
    /\ LET r == aggregate_results(callback.args)
       IN callback' = [callback EXCEPT !.state = r.state, !.result = r.retval]
    /\ UNCHANGED <<serviceVars, controlVars, lifecycleVars, chainVars, members>>

ChordNext ==
    \/ ChordSubmit
    \/ \E i \in 1..MaxChunks : MemberReturn(i)
    \/ CallbackRun

SpecChord == Init /\ [][ChordNext]_vars

(* ---------------------------- chain actions --------------------------- *)
\* POST /api/chain-tasks/
ChainSubmit ==
    /\ steps = <<>>
    /\ \E v \in ChainInputs : steps' = task_chain_example(v)
    /\ UNCHANGED <<serviceVars, controlVars, lifecycleVars, chordVars, revoked>>

\* a worker receives the message of step k: a revoked id is discarded and
\* recorded REVOKED, any other starts
StepReceive(k) ==
    /\ steps # <<>>
    /\ steps[k].state = "queued"
    /\ steps' = [steps EXCEPT ![k].state =
                    IF k \in revoked THEN "REVOKED" ELSE "STARTED"]
    /\ UNCHANGED <<serviceVars, controlVars, lifecycleVars, chordVars, revoked>>

\* the body of step k returns or raises
StepRun(k) ==
    /\ steps # <<>>
    /\ steps[k].state = "STARTED"
    /\ steps' = chain_step_done(steps, k, WorkflowStep(k, steps[k].arg))
    /\ UNCHANGED <<serviceVars, controlVars, lifecycleVars, chordVars, revoked>>

\* POST /api/revoke-task/<id>/?terminate=...: the id is revoked at the
\* workers; with terminate a step that is executing is killed
RevokeStep(k) ==
    /\ steps # <<>>
    /\ k \notin revoked
    /\ revoked' = revoked \cup {k}
    /\ \E terminate \in BOOLEAN :
          steps' = IF terminate /\ steps[k].state = "STARTED"
                   THEN [steps EXCEPT ![k].state = "REVOKED"]
                   ELSE steps
    /\ UNCHANGED <<serviceVars, controlVars, lifecycleVars, chordVars>>

ChainNext ==
    \/ ChainSubmit
    \/ \E k \in 1..ChainLength : StepReceive(k)
    \/ \E k \in 1..ChainLength : StepRun(k)
    \/ \E k \in 1..ChainLength : RevokeStep(k)

SpecChain == Init /\ [][ChainNext]_vars

(* ====================================================================== *)
(* Properties of the lifecycle tracking                                   *)
(* ====================================================================== *)
Terminal(row) == row.status \in {"SUCCESS", "FAILURE", "REVOKED"}

\* a terminal notification whose outcome differs from the recorded one
ConflictingTerminal(id) ==
    \/ logs[id].status = "FAILURE" /\ Postrun(id)
    \/ logs[id].status = "SUCCESS" /\ SignalFailure(id)

\* C1: the first terminal write is authoritative: a conflicting terminal
\* notification for a task id whose TaskLog is already SUCCESS or FAILURE
\* leaves status, result and completed_at unchanged.
C1_FirstTerminalWriteWins ==
    [][\A id \in TaskIds :
          (Exists(logs, id) /\ ConflictingTerminal(id)) =>
             /\ logs'[id].status = logs[id].status
             /\ logs'[id].result = logs[id].result
             /\ logs'[id].completed_at = logs[id].completed_at]_vars

\* C2: after an execution that raised and was not retried (task_failure, then
\* task_postrun), the TaskLog of the id has status FAILURE and the error text
\* as result.
C2_FailedExecutionEndsFailure ==
    \A id \in TaskIds :
        (pc[id] = "done" /\ state[id] = "FAILURE" /\ Exists(logs, id)) =>
            /\ logs[id].status = "FAILURE"
            /\ logs[id].result = Str(retval[id])

\* C3: a start notification for a task id that already has a TaskLog leaves
\* the stored row untouched (duplicate redelivery at any point of the
\* lifecycle changes nothing).
C3_PrerunIdempotentUpsert ==
    [][\A id \in TaskIds :
          (Exists(logs, id) /\ Prerun(id)) => logs'[id] = logs[id]]_vars

\* C4: a start notification after a terminal one is discarded: no step moves
\* a TaskLog from SUCCESS, FAILURE or REVOKED back to STARTED.
C4_TerminalNeverBackToStarted ==
    [][\A id \in TaskIds :
          (Exists(logs, id) /\ Terminal(logs[id]) /\ Exists(logs', id)) =>
             logs'[id].status # "STARTED"]_vars

\* C5: when an execution of a task ends successfully (its postrun has been
\* handled), a TaskLog with the task's id exists and its status is SUCCESS.
C5_SuccessfulTaskLoggedSuccess ==
    [][\A id \in TaskIds :
          (Postrun(id) /\ state[id] = "SUCCESS") =>
             /\ Exists(logs', id)
             /\ logs'[id].status = "SUCCESS"]_vars

\* C5 witness: a task ran to successful completion and its row says SUCCESS
C5_Witness ==
    \E id \in TaskIds :
        /\ pc[id] = "done" /\ state[id] = "SUCCESS"
        /\ Exists(logs, id) /\ logs[id].status = "SUCCESS"

\* C6: create_users_batch(count, prefix) run by a worker completes
\* successfully: it returns the success dict with the requested count and the
\* number of User rows grows by exactly count.
C6_CreateUsersBatchSucceeds ==
    [][\A id \in TaskIds :
          (name[id] = CREATE_USERS /\ Body(id)) =>
             /\ state'[id] = "SUCCESS"
             /\ retval'[id] = PyDict(args[id][1])
             /\ users' = users + args[id][1]]_vars

\* C7: TaskLog.retry_count equals the number of retry cycles the task has
\* gone through (request.retries).
C7_RetryCountIsRetries ==
    \A id \in TaskIds :
        Exists(logs, id) => logs[id].retry_count = retries[id]

(* ====================================================================== *)
(* Properties of the chord and of the chain                               *)
(* ====================================================================== *)
SomeFailed(ms) == \E i \in 1..Len(ms) : ms[i].state = "FAILURE"
AllSucceeded(ms) ==
    callback # NoCallback /\ \A i \in 1..Len(ms) : ms[i].state = "SUCCESS"

StepEnded(k) == steps[k].state \in {"FAILURE", "REVOKED"}
StepActive(k) == steps[k].state \in {"queued", "STARTED"}

C12_RetriesBounded ==
    [][\A id \in TaskIds :
          (Body(id) /\ name[id] \in RetryTasks) =>
             /\ retries[id] <= MaxRetries
             /\ state'[id] = "RETRY" => retries[id] < MaxRetries
             /\ retries[id] = MaxRetries => state'[id] \in {"SUCCESS", "FAILURE"}
             /\ (name[id] = WITH_RETRY /\ state'[id] = "SUCCESS") =>
                   /\ retval'[id] = PyDict(retries[id] + 1)
                   /\ retval'[id].val \in 1..(MaxRetries + 1)]_vars

\* C12 witness: a task_with_retry that failed on every one of its 4
\* executions and is in terminal FAILURE
C12_Witness ==
    \E id \in TaskIds :
        /\ name[id] = WITH_RETRY
        /\ pc[id] = "done"
        /\ state[id] = "FAILURE"
        /\ retries[id] = MaxRetries

\* C13: the un-jittered delay of the retry with retry_count = k is
\* min(600, 5 * 2^k), that is 5, 10, 20, 40 for k = 0..3; it is non-decreasing
\* in retry_count, never above 600, and the jittered delay lies in
\* [0, computed delay].
C13_BackoffFromBaseFive ==
    \A k \in 1..Len(schedule) :
        /\ schedule[k].computed =
              Min(retry_backoff_max, retry_countdown * (2 ^ schedule[k].retry_count))
        /\ schedule[k].computed <= retry_backoff_max
        /\ k > 1 => schedule[k - 1].computed <= schedule[k].computed
        /\ schedule[k].countdown \in 0..schedule[k].computed

(* ====================================================================== *)
(* Properties of revocation                                               *)
(* ====================================================================== *)
\* C14: revoke_task (terminate=false) on an id that is still PENDING records
\* REVOKED as the tracked status of the task, in its TaskLog or in the
\* result backend, and a revoked id is never started afterwards.
C14_RevokePendingRecordsRevoked ==
    [][\A id \in TaskIds :
          /\ (/\ Revoke(id)
              /\ pc[id] = "queued"
              /\ AsyncResultStatus(id) = "PENDING"
              /\ ~response'.terminated) =>
                 \/ Exists(logs', id) /\ logs'[id].status = "REVOKED"
                 \/ AsyncResultStatus(id)' = "REVOKED"
          /\ id \in revoking => ~Prerun(id)]_vars

\* C15: revoke_task on an id whose task is already SUCCESS or FAILURE is a
\* no-op: the TaskLog table and the stored state and result are unchanged,
\* and the response does not report a revocation.
C15_RevokeTerminalIsNoOp ==
    [][\A id \in TaskIds :
          (/\ Revoke(id)
           /\ pc[id] = "done"
           /\ state[id] \in {"SUCCESS", "FAILURE"}) =>
              /\ logs' = logs
              /\ state' = state
              /\ retval' = retval
              /\ response'.message # "revoked"]_vars

RECURSIVE SumCounts(_)
SumCounts(f) ==
    IF DOMAIN f = {} THEN 0
    ELSE LET k == CHOOSE x \in DOMAIN f : TRUE
         IN f[k] + SumCounts([x \in DOMAIN f \ {k} |-> f[x]])

\* C18: in a response of task_overview the counts of status_breakdown sum to
\* total_tasks, each entry counts a status that is present, and recent_tasks
\* holds the min(10, total_tasks) newest records, newest first, also while
\* the lifecycle handlers write records.
C18_OverviewConsistent ==
    overview.pc = "done" =>
        /\ SumCounts(overview.status_breakdown) = overview.total_tasks
        /\ \A st \in DOMAIN overview.status_breakdown :
              overview.status_breakdown[st] > 0
        /\ Len(overview.recent_tasks) =
              (IF overview.total_tasks < RecentLimit
               THEN overview.total_tasks ELSE RecentLimit)
        /\ \A i \in 1..(Len(overview.recent_tasks) - 1) :
              logs[overview.recent_tasks[i]].created_at >=
                 logs[overview.recent_tasks[i + 1]].created_at

ReportFinal(row) == row.status \in {"COMPLETED", "FAILED"}
ReportOrder ==
    {<<"PENDING", "PROCESSING">>, <<"PROCESSING", "COMPLETED">>,
     <<"PROCESSING", "FAILED">>}

\* C19: a Report is created PENDING, its status changes only from PENDING to
\* PROCESSING and from PROCESSING to COMPLETED or FAILED, and once it is
\* COMPLETED or FAILED no operation changes its status or completed_at.
C19_ReportLifecycleInOrder ==
    [][/\ \A r \in 1..Len(reports') :
             r > Len(reports) => reports'[r].status = "PENDING"
       /\ \A r \in 1..Len(reports) :
             /\ reports'[r].status # reports[r].status =>
                   <<reports[r].status, reports'[r].status>> \in ReportOrder
             /\ ReportFinal(reports[r]) =>
                   /\ reports'[r].status = reports[r].status
                   /\ reports'[r].completed_at = reports[r].completed_at]_vars

(* ====================================================================== *)
(* Properties of the group                                                *)
(* ====================================================================== *)
GroupMembers == {id \in GroupIds : pc[id] # "new"}
GroupSucceeded ==
    /\ GroupMembers # {}
    /\ \A id \in GroupMembers : pc[id] = "done" /\ state[id] = "SUCCESS"

C21_TimeLimits ==
    /\ soft_time_limit < time_limit
    /\ limited.ended = "soft" =>
          /\ limited.state = "SUCCESS"
          /\ limited.retval = [status |-> "time_limit_exceeded",
                               duration |-> limited.duration]
    /\ (limited.pc = "done" /\ limited.duration < soft_time_limit) =>
          /\ limited.state = "SUCCESS"
          /\ limited.retval = [status |-> "completed",
                               duration |-> limited.duration]
    /\ limited.ended = "hard" =>
          /\ limited.pc = "killed"
          /\ limited.state = "FAILURE"
          /\ limited.runs = 1

C21_Witness ==
    /\ limited.ended = "soft"
    /\ limited.pc = "done"
    /\ limited.duration > soft_time_limit

(* ====================================================================== *)
(* Properties of ScheduledTask                                            *)
(* ====================================================================== *)
\* C22: an enabled schedule entry with interval_seconds = 300 and
\* last_run = T is due at T+300: it then fires, its last_run becomes T+300
\* and its next_run T+600.
C22_IntervalEntryFiresWhenDue ==
    \A r \in 1..MaxScheduled : \A T \in 0..LatestCreate :
        (/\ r \in 1..Len(scheduled)
         /\ scheduled[r].enabled
         /\ scheduled[r].interval_seconds = TestInterval
         /\ scheduled[r].last_run = T
         /\ beat.clock = T + TestInterval)
        ~> (/\ r \in 1..Len(scheduled)
            /\ scheduled[r].last_run = T + TestInterval
            /\ scheduled[r].next_run = T + 2 * TestInterval)

\* C23: every enabled ScheduledTask row has exactly one of crontab_schedule
\* and interval_seconds set.
C23_ExactlyOneTrigger ==
    \A r \in 1..Len(scheduled) :
        scheduled[r].enabled =>
            (scheduled[r].crontab_schedule # "") #
                (scheduled[r].interval_seconds # NoInterval)

(* ====================================================================== *)
(* Properties of the submit endpoints                                     *)
(* ====================================================================== *)
\* the last request built a composition with no members
EmptyComposition ==
    /\ http.method = "POST"
    /\ http.body = [kind |-> "json", val |-> 0]
    /\ http.view \in {"group_tasks", "chord_tasks"}

\* C24: a POST to group-tasks with count = 0 or to chord-tasks with
\* chunks = 0 is answered with an error and publishes no task, in particular
\* no chord callback.
C24_EmptyCompositionRejected ==
    EmptyComposition =>
        /\ http.code = 400
        /\ http.status = "error"
        /\ http.sent = <<>>

\* C26: a POST to a submit endpoint that raises nothing applies exactly one
\* task or workflow and answers 'success' with its id; a GET applies nothing
\* and changes no state; a POST whose submission raises is answered 400
\* 'error'.
C26_OneSubmissionPerPost ==
    [][LET raises == http'.body.kind = "malformed" \/ ~http'.broker
       IN /\ (http'.method = "POST" /\ ~raises) =>
                /\ http'.code = 200
                /\ http'.status = "success"
                /\ outbox' = Append(outbox, [id |-> http'.id, view |-> http'.view])
                /\ \A k \in 1..Len(outbox) : outbox[k].id # http'.id
          /\ (http'.method = "POST" /\ raises) =>
                /\ http'.code = 400
                /\ http'.status = "error"
          /\ http'.method = "GET" =>
                /\ outbox' = outbox
                /\ http'.sent = <<>>
                /\ UNCHANGED <<lifecycleVars, canvasVars, controlVars,
                               backoffVars, progressVars, healthVars,
                               overviewVars, reportVars, limitVars,
                               beatVars, handlerVars, bulkVars>>]_vars

C26_Witness ==
    /\ Len(outbox) = 1
    /\ http.method = "GET"
    /\ http.code = 200

(* ====================================================================== *)
(* Properties of the handlers under duplicate and concurrent delivery     *)
(* ====================================================================== *)
\* the row an invocation holds, as the table has it now
Reloaded(T, instance) == {r \in T : r.pk = instance.pk}

\* C25: after mark_success the stored row has status SUCCESS and a non-null
\* completed_at; after mark_failure(error) the stored row has status
\* FAILURE, a non-null completed_at and result = str(error).
C25_MarksArePersisted ==
    [][\A k \in Invocations :
          (inv[k].pc = "mark" /\ inv'[k].pc # "mark") =>
             /\ Reloaded(table', inv[k].task_log) # {}
             /\ \A r \in Reloaded(table', inv[k].task_log) :
                   /\ r.completed_at # NoTime
                   /\ inv[k].handler = "postrun" => r.status = "SUCCESS"
                   /\ inv[k].handler = "failure" =>
                         /\ r.status = "FAILURE"
                         /\ r.result = Str(inv[k].retval)]_vars

C25_Witness ==
    \E k \in Invocations :
        /\ inv[k].handler = "failure"
        /\ inv[k].pc = "incr"
        /\ \E r \in Reloaded(table, inv[k].task_log) :
              r.status = "FAILURE" /\ r.result = Str(BodyError)

\* C27: however the invocations of task_postrun_handler and
\* task_failure_handler for one task id interleave, none raises, one TaskLog
\* is left for the id, and the failure notification delivered twice leaves
\* the record a single delivery leaves (retry_count = 1).
C27_DuplicateDeliveryIsIdempotent ==
    /\ \A k \in Invocations : inv[k].pc # "raised"
    /\ \A id \in HandlerIds :
          /\ Cardinality(RowsOf(table, id)) <= 1
          /\ (\A k \in Invocations :
                  /\ inv[k].id = id
                  /\ inv[k].handler = "failure"
                  /\ inv[k].pc = "done")
               => \A r \in RowsOf(table, id) : r.retry_count = 1

\* C28: at most one TaskLog row exists per task id, the task_id of a row
\* never changes, and a step of a handler invocation for one task id leaves
\* the rows of every other task id as they are.
C28_OneRowPerTaskId ==
    [][/\ \A id \in HandlerIds : Cardinality(RowsOf(table', id)) <= 1
       /\ \A r \in table : \E q \in table' :
             q.pk = r.pk /\ q.task_id = r.task_id
       /\ Cardinality({r.task_id : r \in (table' \ table) \cup (table \ table')}) <= 1
       /\ \A k \in Invocations :
             (inv'[k] # inv[k] /\ inv[k].pc # "idle") =>
                \A r \in table : r.task_id # inv[k].id => r \in table']_vars

C28_Witness ==
    /\ Cardinality(table) >= 2
    /\ \E k \in Invocations : inv[k].pc = "raised"

(* ====================================================================== *)
(* Properties of started_at                                               *)
(* ====================================================================== *)
\* TaskLog.duration: None unless both timestamps are set
duration(row) ==
    IF row.started_at # NoTime /\ row.completed_at # NoTime
    THEN row.completed_at - row.started_at
    ELSE NoTime

\* C29: every TaskLog with status STARTED has a non-null started_at, and a
\* record that has completed has a defined duration that is not negative.
C29_StartedHasStartedAt ==
    \A id \in TaskIds :
        Exists(logs, id) =>
            /\ logs[id].status = "STARTED" => logs[id].started_at # NoTime
            /\ logs[id].completed_at # NoTime =>
                  /\ duration(logs[id]) # NoTime
                  /\ duration(logs[id]) >= 0

(* ====================================================================== *)
(* Properties of the values passed along the chain                        *)
(* ====================================================================== *)
\* C30: in the chain of task_chain_example a step after the first is run
\* only with the successful result of the step before it as its argument,
\* and a chain that ends does so, for the integer initial value v, with
\* {'final_result': 2*v + 10, 'status': 'completed'}.
C30_ChainPassesResults ==
    steps # <<>> =>
        /\ \A k \in 2..ChainLength :
              steps[k].state # "unsent" =>
                 /\ steps[k - 1].state = "SUCCESS"
                 /\ steps[k].arg = steps[k - 1].result
        /\ steps[ChainLength].state = "SUCCESS" =>
              /\ steps[1].arg.type = "int"
              /\ steps[ChainLength].result =
                    [type |-> "final",
                     val |-> PyInt(2 * steps[1].arg.val + 10),
                     status |-> "completed"]

C30_Witness ==
    /\ steps # <<>>
    /\ steps[1].arg = PyInt(1)
    /\ steps[ChainLength].state = "SUCCESS"

(* ====================================================================== *)
(* Properties of completed_at                                             *)
(* ====================================================================== *)
\* C31: every TaskLog record whose status is SUCCESS or FAILURE has a
\* non-null completed_at, whichever path wrote it (mark_success or
\* mark_failure, the DoesNotExist branch of a handler, or a task body that
\* creates the record).
C31_TerminalHasCompletedAt ==
    \A id \in TaskIds :
        (Exists(logs, id) /\ logs[id].status \in {"SUCCESS", "FAILURE"}) =>
            logs[id].completed_at # NoTime

(* ====================================================================== *)
(* Properties of the stored result                                        *)
(* ====================================================================== *)
\* C32: after mark_success(result) the stored result of the row is the text
\* of that result, for every result value (falsy ones such as 0 included),
\* and a row with status SUCCESS never holds the error text of a failure of
\* the same task id.
C32_SuccessStoresResult ==
    [][\A id \in TaskIds :
          /\ (Postrun(id) /\ Exists(logs, id)) =>
                 logs'[id].result = Str(retval[id])
          /\ (Exists(logs', id) /\ logs'[id].status = "SUCCESS") =>
                 logs'[id].result \notin {Str(BodyError), Str(IntegrityError)}
      ]_vars

(* ====================================================================== *)
(* Properties of the progress updates                                     *)
(* ====================================================================== *)
\* C33: long_running_task(total_steps), for an integer total_steps, publishes
\* exactly total_steps progress updates, with current = 1, 2, ...,
\* total_steps in this order and total = total_steps; current never exceeds
\* total, percent never decreases and is 100 in the last update; after the
\* last update the task returns its 'completed' dict.  For total_steps = 0
\* it publishes nothing and returns the dict.
\* long_task.i is the number of updates published since the body started.
C33_ProgressUpdatesInOrder ==
    [][(LongRun /\ long_task.total_steps.type = "int") =>
          LET total_steps == long_task.total_steps.val
          IN IF meta'.status = "PROGRESS"
             THEN /\ long_task.i < total_steps
                  /\ long_task'.i = long_task.i + 1
                  /\ long_task'.pc = "running"
                  /\ meta'.result.current = long_task.i + 1
                  /\ meta'.result.total = total_steps
                  /\ meta'.result.current <= meta'.result.total
                  /\ meta.status = "PROGRESS" =>
                        meta'.result.percent >= meta.result.percent
                  /\ meta'.result.current = total_steps =>
                        meta'.result.percent = 100
             ELSE /\ long_task.i = total_steps
                  /\ long_task'.i = long_task.i
                  /\ long_task'.pc = "done"
                  /\ meta'.status = "SUCCESS"
                  /\ meta'.result = PyDict(total_steps)
      ]_vars

\* C33 witness: the task called with MaxSteps has published MaxSteps updates
\* and returned
C33_Witness ==
    /\ long_task.total_steps = PyInt(MaxSteps)
    /\ long_task.pc = "done"
    /\ long_task.i = MaxSteps
    /\ meta.status = "SUCCESS"
    /\ meta.result = PyDict(MaxSteps)

(* ====================================================================== *)
(* Properties of the fields of a task_status response                     *)
(* ====================================================================== *)
\* C34: a task_status response carries 'result' exactly when the task is
\* ready and successful, 'error' exactly when it is ready and not
\* successful, and 'progress' only when it is not ready; it never carries
\* both 'result' and 'error', and 'successful' is null exactly when the task
\* is not ready.
C34_StatusFieldsAgree ==
    answer.view = "task_status" =>
        LET d == answer.data
        IN /\ d.result # Absent <=> (d.ready /\ d.successful = "True")
           /\ d.error # "" <=> (d.ready /\ d.successful = "False")
           /\ d.progress # Absent => ~d.ready
           /\ ~(d.result # Absent /\ d.error # "")
           /\ d.successful = "None" <=> ~d.ready

(* ====================================================================== *)
(* Properties of Report.completed_at                                      *)
(* ====================================================================== *)
\* C35: every Report whose status is COMPLETED or FAILED has a non-null
\* completed_at, whether mark_completed / mark_failed or the generate_report
\* task wrote it.
C35_FinalReportHasCompletedAt ==
    \A r \in 1..Len(reports) :
        reports[r].status \in {"COMPLETED", "FAILED"} =>
            reports[r].completed_at # NoTime

(* ====================================================================== *)
(* Properties of send_bulk_emails                                         *)
(* ====================================================================== *)
\* the send_email_task messages in ms that are addressed to email only
AddressedTo(ms, email) ==
    {k \in 1..Len(ms) : ms[k] = Message(SEND_EMAIL, <<email>>)}

\* C36: send_bulk_emails publishes exactly one send_email_task per user that
\* is both in user_ids and active, each addressed to that user's email only;
\* inactive or unknown ids get no task, and the returned email_count is the
\* number of tasks published in the group.
C36_OneEmailPerActiveUser ==
    [][BulkRun =>
          LET targets ==
                  {u \in 1..Len(accounts) :
                      /\ accounts[u].is_active
                      /\ \E k \in 1..Len(bulk.user_ids) : bulk.user_ids[k] = u}
              ms == bulk'.published
          IN /\ Len(ms) = Cardinality(targets)
             /\ \A email \in Emails :
                   Cardinality(AddressedTo(ms, email)) =
                      Cardinality({u \in targets : accounts[u].email = email})
             /\ bulk'.retval = PyDict(Len(ms))
      ]_vars

\* C36 witness: the call named an active user, an inactive user and an id
\* that no user has, and published one message
C36_Witness ==
    /\ bulk.pc = "done"
    /\ Len(accounts) = 2
    /\ \E u \in 1..2 : ~accounts[u].is_active
    /\ \E k \in 1..Len(bulk.user_ids) : bulk.user_ids[k] = MaxUsers + 1
    /\ Len(bulk.published) = 1
    /\ bulk.retval = PyDict(1)

====
